---- MODULE Spec2Model ----
(***************************************************************************)
(* Model of the accuraTraveller scraping scripts and weather client.       *)
(*                                                                         *)
(* Python values are tagged pairs <<type, payload>>; a dict is the         *)
(* sequence of its <<key, value>> items in insertion order, so that key    *)
(* order is observable.  An HTML element is a record of its tag, the       *)
(* attributes the scripts look at, its own text and its child elements.    *)
(***************************************************************************)
EXTENDS Integers, Sequences, FiniteSets, TLC

VARIABLES
  script,       \* the entry point this process runs
  pc,           \* position inside the entry point
  page,         \* the HTML document the remote site serves
  soup,         \* the parsed document (NoSoup before parsing)
  hotel_cards,  \* the item nodes selected from the document
  idx,          \* number of item nodes processed so far
  hotel_data,   \* the record built from the item node processed last
  hotels,       \* the record list being assembled (payload of a list)
  title,        \* the extracted page title
  result,       \* the result dict built by the entry point
  ret,          \* the value returned to the caller (NotReturned before)
  raised,       \* the exception that left the entry point, or NoExc
  files,        \* the file system: file name -> content
  net,          \* sleeps, HTTP requests and their answers, in order
  printed,      \* the messages printed, in order
  now,          \* the wall clock, in seconds
  run,          \* how many times the entry point was started
  first,        \* the value returned by the first run
  hashseed,     \* the string-hash seed of this process
  units,        \* units argument of the weather client
  days,         \* days argument of the forecast calls
  geo,          \* body of the geocoding response (NoResponse before)
  locations,    \* value returned by get_coordinates
  loaded,       \* the value a reader loaded from the JSON file
  opened,       \* the files opened, in order: <<file name, mode>>
  api_key,      \* api_key argument of WeatherService(...)
  environ,      \* os.getenv('OPENWEATHER_API_KEY')
  self_api_key, \* self.api_key of the WeatherService object (NoObject if none)
  choice,       \* the line the summarizer menu reads from input()
  called,       \* the summarize methods main called, in order
  prompts,      \* the prompts handed to ollama.generate, in order
  urls,         \* urls argument of scrape_multiple_pages
  results,      \* the results list of scrape_multiple_pages
  weather_data, \* the value get_weather returned to get_weather_by_city
  response_data \* data: the parsed body of the weather or forecast response

vars == <<script, pc, page, soup, hotel_cards, idx, hotel_data, hotels, title, result,
          ret, raised, files, net, printed, now, run, first, hashseed,
          units, days, geo, locations, loaded, opened, api_key, environ,
          self_api_key, choice, called, prompts, urls, results, weather_data,
          response_data>>

----------------------------------------------------------------------------
(* Bounds *)

MaxCards == 3      \* item nodes per document
MaxElems == 2      \* descendant elements of a single item node
MaxUrls == 2
MaxGeo == 2        \* locations in a geocoding response

SeqUpTo(S, n) == UNION {[1..k -> S] : k \in 0..n}

----------------------------------------------------------------------------
(* Python values *)

PyNone == <<"NoneType", "">>
PyStr(s) == <<"str", s>>
PyInt(n) == <<"int", n>>
PyFloat(digits) == <<"float", digits>>
PyList(xs) == <<"list", xs>>
PyDict(items) == <<"dict", items>>

TypeOf(v) == v[1]
Payload(v) == v[2]

\* bool(v): None, '', 0, [] and {} are false
Truthy(v) ==
  CASE TypeOf(v) = "NoneType" -> FALSE
    [] TypeOf(v) = "str" -> Payload(v) # ""
    [] TypeOf(v) = "int" -> Payload(v) # 0
    [] TypeOf(v) = "float" -> Payload(v) # "0.0"
    [] OTHER -> Payload(v) # <<>>

\* a or b
PyOr(a, b) == IF Truthy(a) THEN a ELSE b

DictHas(d, k) == \E i \in 1..Len(Payload(d)) : Payload(d)[i][1] = k

\* d[k]
DictGet(d, k) ==
  LET i == CHOOSE j \in 1..Len(Payload(d)) : Payload(d)[j][1] = k
  IN  Payload(d)[i][2]

\* d[k] = v : an existing key keeps its position, a new key goes last
DictSet(d, k, v) ==
  IF DictHas(d, k)
  THEN PyDict([i \in 1..Len(Payload(d)) |->
                 IF Payload(d)[i][1] = k THEN <<k, v>> ELSE Payload(d)[i]])
  ELSE PyDict(Append(Payload(d), <<k, v>>))

----------------------------------------------------------------------------
(* Strings: the operations the scripts apply, on the vocabulary used here *)

\* str.strip()
Strip(s) ==
  CASE s = "  " -> ""
    [] s = " WiFi " -> "WiFi"
    [] s = " Hotel D " -> "Hotel D"
    [] s = " 3 " -> "3"
    [] OTHER -> s

\* str.lower()
Lower(s) ==
  CASE s = "Card-Title" -> "card-title"
    [] s = "Property-Card-Wide" -> "property-card-wide"
    [] s = "Historic palace 2 hours" -> "historic palace 2 hours"
    [] s = "Fort trek" -> "fort trek"
    [] s = "Lake walk" -> "lake walk"
    [] s = "No content found" -> "no content found"
    [] OTHER -> s

\* needle in hay
Contains(needle, hay) ==
  \/ needle = hay
  \/ <<needle, hay>> \in
       { <<"title", "card-title">>,
         <<"property-card", "property-card-wide">>,
         <<"property", "property-card-wide">>,
         <<"property", "property-card">>,
         <<"property", "property-item">>,
         <<"price", "price-tag">>,
         <<"review-score", "review-score-badge">>,
         <<"review-score", "review-score-text">>,
         <<"address", "address-line">>,
         <<"distance", "distance-km">>,
         <<"facility", "facility-list">>,
         <<"name", "hotel-name">>,
         <<"e0397", "star e0397">>,
         <<"http", "http://hotel.example/b">>,
         <<"http", "https://www.booking.com/hotel/a">>,
         <<"tripadvisor", "www.tripadvisor.com">> }

\* hay.startswith(prefix)
StartsWith(hay, prefix) ==
  \/ hay = prefix
  \/ <<prefix, hay>> \in
       { <<"/", "/hotel/a">>,
         <<"http", "http://hotel.example/b">>,
         <<"http", "https://www.booking.com/hotel/a">> }

\* re.compile(pattern).search(text), for the patterns of the TripAdvisor
\* scraper; "(?i)" marks the patterns compiled with re.I
RegexSearch(pattern, text) ==
  <<pattern, text>> \in
    { <<"review|Review", "review-container">>,
      <<"review|Review", "review-stub">>,
      <<"review|Review", "Review">>,
      <<"review|Review", "reviewCount">>,
      <<"rating|Rating|bubble", "bubble_50">>,
      <<"rating|Rating|bubble", "rating">>,
      <<"rating|Rating|bubble", "ratingDate">>,
      <<"rating|Rating|bubble", "overall-rating">>,
      <<"title|Title", "quote-title">>,
      <<"text|Text|partial_entry", "partial_entry">>,
      <<"date|Date|ratingDate", "ratingDate">>,
      <<"username|member|author", "member_info">>,
      <<"(?i)overall.*rating|rating.*overall", "overall-rating">>,
      <<"(?i)review.*count|count.*review|reviewCount", "reviewCount">>,
      <<"(?i)amenity|amenities|feature", "amenity">>,
      <<"(?i)amenity|amenities|feature", "amenities-item">>,
      <<"(?i)amenity|amenities|feature", "Feature">>,
      <<"(?i)address|location|street", "street-address">> }

\* urljoin(base_url, href), base_url being the TripAdvisor page
UrlJoin(base, href) ==
  CASE href = "/Hotel_Review-x" -> "https://www.tripadvisor.com/Hotel_Review-x"
    [] href = "/img/a.jpg" -> "https://www.tripadvisor.com/img/a.jpg"
    [] href = "" -> base
    [] OTHER -> href

\* urlparse(url).netloc
NetLoc(url) ==
  CASE url = "https://other.example/z" -> "other.example"
    [] url = "mailto:info@hotel.example" -> ""
    [] OTHER -> "www.tripadvisor.com"

\* s[:n]
Take(seq, n) == IF Len(seq) <= n THEN seq ELSE SubSeq(seq, 1, n)

\* class_='c': c is one of the classes of the class attribute, or the whole
\* attribute
HasClass(cls, c) ==
  \/ cls = c
  \/ <<c, cls>> \in { <<"title", "h3 title">>, <<"h3", "h3 title">>,
                      <<"star", "star e0397">>, <<"e0397", "star e0397">>,
                      <<"post-holder", "post-holder clearfix">>,
                      <<"clearfix", "post-holder clearfix">> }

RECURSIVE JoinSpace(_)
\* ' '.join(strings)
JoinSpace(ss) ==
  IF ss = <<>> THEN ""
  ELSE IF Len(ss) = 1 THEN ss[1]
  ELSE ss[1] \o " " \o JoinSpace(Tail(ss))

\* time.strftime('%Y-%m-%d %H:%M:%S') at clock value t
StrfTime(t) ==
  "2025-12-13 10:00:" \o (IF t < 10 THEN "0" ELSE "") \o ToString(t)

----------------------------------------------------------------------------
(* HTML elements *)

NoAttr == "<no attribute>"

Elem(tag, testid, cls, text, kids) ==
  [tag |-> tag, testid |-> testid, cls |-> cls, text |-> text,
   href |-> NoAttr, src |-> NoAttr, data_src |-> NoAttr,
   data_id |-> NoAttr, itemprop |-> NoAttr, alt |-> NoAttr,
   aria_label |-> NoAttr, name |-> NoAttr, property |-> NoAttr,
   content |-> NoAttr, type |-> NoAttr, kids |-> kids]

Anchor(href, text) == [Elem("a", NoAttr, NoAttr, text, <<>>) EXCEPT !.href = href]

Img(src, data_src) ==
  [Elem("img", NoAttr, NoAttr, "", <<>>) EXCEPT !.src = src, !.data_src = data_src]

RECURSIVE Flatten(_)
\* the descendants of the elements of a sequence, in document order
Flatten(elems) ==
  IF elems = <<>> THEN <<>>
  ELSE <<Head(elems)>> \o Flatten(Head(elems).kids) \o Flatten(Tail(elems))

\* the descendants of a node, in document order
Descendants(node) == Flatten(node.kids)

\* the None that find() returns
NoElem == Elem("<None>", NoAttr, NoAttr, "", <<>>)

RECURSIVE Concat(_)
Concat(ss) == IF ss = <<>> THEN "" ELSE Head(ss) \o Concat(Tail(ss))

\* elem.get_text(strip=True): the stripped strings of the element and its
\* descendants, joined
GetText(elem) ==
  LET all == <<elem>> \o Descendants(elem)
  IN  Concat([i \in 1..Len(all) |-> Strip(all[i].text)])

\* "or" that also skips an element whose text is empty
ElemOrNonEmpty(e1, e2) ==
  IF e1 # NoElem /\ GetText(e1) # "" THEN e1 ELSE e2

\* e1 or e2 on find() results: a Tag is always true, None is false
ElemOr(e1, e2) == IF e1 # NoElem THEN e1 ELSE e2

\* elem.get(attr)
AttrVal(a) == IF a = NoAttr THEN PyNone ELSE PyStr(a)

----------------------------------------------------------------------------
(* JSON documents: json.dump writes a value as JSON text, json.load reads  *)
(* JSON text back.  The text is represented by its syntax tree.            *)

RECURSIVE JsonDumpReordered(_)
\* the mutant of JsonDump: the members of an object are written in the
\* reverse of the dict's order
JsonDumpReordered(v) ==
  CASE TypeOf(v) = "NoneType" -> <<"null", "">>
    [] TypeOf(v) = "str" -> <<"string", Payload(v)>>
    [] TypeOf(v) = "int" -> <<"number", Payload(v)>>
    [] TypeOf(v) = "float" -> <<"real", Payload(v)>>
    [] TypeOf(v) = "list" ->
         <<"array", [i \in 1..Len(Payload(v)) |-> JsonDumpReordered(Payload(v)[i])]>>
    [] TypeOf(v) = "dict" ->
         <<"object", [i \in 1..Len(Payload(v)) |->
                        <<Payload(v)[Len(Payload(v)) + 1 - i][1],
                          JsonDumpReordered(Payload(v)[Len(Payload(v)) + 1 - i][2])>>]>>

RECURSIVE JsonDump(_)
\* json.dump(v, f, indent=2, ensure_ascii=False): None -> null, str ->
\* string, int -> number, list -> array, dict -> object whose members are
\* written in the dict's order
JsonDump(v) ==
  CASE TypeOf(v) = "NoneType" -> <<"null", "">>
    [] TypeOf(v) = "str" -> <<"string", Payload(v)>>
    [] TypeOf(v) = "int" -> <<"number", Payload(v)>>
    [] TypeOf(v) = "float" -> <<"real", Payload(v)>>
    [] TypeOf(v) = "list" ->
         <<"array", [i \in 1..Len(Payload(v)) |-> JsonDump(Payload(v)[i])]>>
    [] TypeOf(v) = "dict" ->
         <<"object", [i \in 1..Len(Payload(v)) |->
                        <<Payload(v)[i][1], JsonDump(Payload(v)[i][2])>>]>>

RECURSIVE JsonLoadNullAsEmpty(_)
\* the mutant of JsonLoad: null is read as the empty string
JsonLoadNullAsEmpty(j) ==
  CASE j[1] = "null" -> PyStr("")
    [] j[1] = "string" -> PyStr(j[2])
    [] j[1] = "number" -> PyInt(j[2])
    [] j[1] = "real" -> PyFloat(j[2])
    [] j[1] = "array" ->
         PyList([i \in 1..Len(j[2]) |-> JsonLoadNullAsEmpty(j[2][i])])
    [] j[1] = "object" ->
         LET RECURSIVE Fill(_, _)
             Fill(d, i) ==
               IF i > Len(j[2]) THEN d
               ELSE Fill(DictSet(d, j[2][i][1], JsonLoadNullAsEmpty(j[2][i][2])),
                         i + 1)
         IN  Fill(PyDict(<<>>), 1)

RECURSIVE JsonLoad(_)
\* json.load(f): null -> None, string -> str, number -> int, array -> list,
\* object -> dict filled member by member
JsonLoad(j) ==
  CASE j[1] = "null" -> PyNone
    [] j[1] = "string" -> PyStr(j[2])
    [] j[1] = "number" -> PyInt(j[2])
    [] j[1] = "real" -> PyFloat(j[2])
    [] j[1] = "array" -> PyList([i \in 1..Len(j[2]) |-> JsonLoad(j[2][i])])
    [] j[1] = "object" ->
         LET RECURSIVE Fill(_, _)
             Fill(d, i) ==
               IF i > Len(j[2]) THEN d
               ELSE Fill(DictSet(d, j[2][i][1], JsonLoad(j[2][i][2])), i + 1)
         IN  Fill(PyDict(<<>>), 1)

\* a file that does not exist
NoFile == <<"absent", "">>
\* the content of an output file left by an earlier run
OldFile == <<"object", << <<"total_hotels", <<"number", 0>> >>,
                          <<"hotels", <<"array", <<>> >> >> >> >>

----------------------------------------------------------------------------
(* booking_scraper.py: scrape_booking_hotels *)

BOOKING_URL == "https://www.booking.com/searchresults.html"
BOOKING_FILE == "booking_hotels.json"

\* the locators of the fallback chains, in written order
NameChain == <<"div[data-testid=title]", "h3", "div[class*=title]">>
PriceChain == <<"span[data-testid=price-and-discounted-price]", "div[class*=price]">>
RatingChain == <<"div[data-testid=review-score]", "div[class*=review-score]">>
LocationChain == <<"span[data-testid=address]", "span[class*=address]">>
DistanceChain == <<"span[data-testid=distance]", "span[class*=distance]">>

\* x and needle in str(x).lower()
ClassHas(e, needle) == e.cls # NoAttr /\ e.cls # "" /\ Contains(needle, Lower(e.cls))

\* whether element e satisfies a locator
LocMatch(loc, e) ==
  CASE loc = "div[data-testid=title]" -> e.tag = "div" /\ e.testid = "title"
    [] loc = "h3" -> e.tag = "h3"
    [] loc = "div[class*=title]" -> e.tag = "div" /\ ClassHas(e, "title")
    [] loc = "span[data-testid=price-and-discounted-price]" ->
         e.tag = "span" /\ e.testid = "price-and-discounted-price"
    [] loc = "div[class*=price]" -> e.tag = "div" /\ ClassHas(e, "price")
    [] loc = "div[data-testid=review-score]" ->
         e.tag = "div" /\ e.testid = "review-score"
    [] loc = "div[class*=review-score]" -> e.tag = "div" /\ ClassHas(e, "review-score")
    [] loc = "div[data-testid=review-score-text]" ->
         e.tag = "div" /\ e.testid = "review-score-text"
    [] loc = "span[data-testid=address]" -> e.tag = "span" /\ e.testid = "address"
    [] loc = "span[class*=address]" -> e.tag = "span" /\ ClassHas(e, "address")
    [] loc = "span[data-testid=distance]" -> e.tag = "span" /\ e.testid = "distance"
    [] loc = "span[class*=distance]" -> e.tag = "span" /\ ClassHas(e, "distance")
    [] loc = "div[class*=facility]" -> e.tag = "div" /\ ClassHas(e, "facility")
    [] loc = "h2[class*=name]" -> e.tag = "h2" /\ ClassHas(e, "name")
    [] loc = "div[data-testid=property-description]" ->
         e.tag = "div" /\ e.testid = "property-description"
    [] loc = "span|div" -> e.tag = "span" \/ e.tag = "div"
    [] loc = "img" -> e.tag = "img"
    [] loc = "a[href]" -> e.tag = "a" /\ e.href # NoAttr
    [] loc = "div[data-testid=property-card]" ->
         e.tag = "div" /\ e.testid = "property-card"
    [] loc = "div[class*=property-card]" ->
         e.tag = "div" /\ ClassHas(e, "property-card")
    [] loc = "div[data-testid*=property]" ->
         e.tag = "div" /\ e.testid # NoAttr /\ e.testid # ""
           /\ Contains("property", Lower(e.testid))
    [] loc = "title" -> e.tag = "title"
    [] loc = "div[data-testid=rating-stars]" ->
         e.tag = "div" /\ e.testid = "rating-stars"
    [] loc = "div[class*=e0397]" ->
         e.tag = "div" /\ e.cls # NoAttr /\ e.cls # "" /\ Contains("e0397", e.cls)
    [] loc = "h1.constructed-heading" ->
         e.tag = "h1" /\ HasClass(e.cls, "constructed-heading")
    [] loc = "span.value" -> e.tag = "span" /\ HasClass(e.cls, "value")
    [] loc = "h3[class=h3 title]" -> e.tag = "h3" /\ e.cls = "h3 title"
    [] loc = "span.title" -> e.tag = "span" /\ HasClass(e.cls, "title")
    [] loc = "div.post-holder[itemprop=articleBody]" ->
         e.tag = "div" /\ HasClass(e.cls, "post-holder")
           /\ e.itemprop = "articleBody"
    [] loc = "div[class=base-block main-card-container content-main-card]" ->
         e.tag = "div"
           /\ e.cls = "base-block main-card-container content-main-card"
    [] loc = "div.left-side" -> e.tag = "div" /\ HasClass(e.cls, "left-side")
    [] loc = "span.number" -> e.tag = "span" /\ HasClass(e.cls, "number")
    [] loc = "div[class=text-holder read-more-wrap]" ->
         e.tag = "div" /\ e.cls = "text-holder read-more-wrap"
    [] loc = "p" -> e.tag = "p"
    [] loc = "span" -> e.tag = "span"
    [] loc = "div.image" -> e.tag = "div" /\ HasClass(e.cls, "image")
    [] loc = "a" -> e.tag = "a"
    [] loc \in {"h1", "h2", "h4", "h5", "h6"} -> e.tag = loc
    [] loc = "ul|ol" -> e.tag \in {"ul", "ol"}
    [] loc = "li" -> e.tag = "li"
    [] loc = "meta" -> e.tag = "meta"
    [] loc = "img[src]" -> e.tag = "img" /\ e.src # NoAttr
    [] loc = "script[type=application/ld+json]" ->
         e.tag = "script" /\ e.type = "application/ld+json"
    [] loc = "div|article[class~review|Review]" ->
         e.tag \in {"div", "article"} /\ RegexSearch("review|Review", e.cls)
    [] loc = "span|div[class~rating|Rating|bubble]" ->
         e.tag \in {"span", "div"} /\ RegexSearch("rating|Rating|bubble", e.cls)
    [] loc = "div|span|a[class~title|Title]" ->
         e.tag \in {"div", "span", "a"} /\ RegexSearch("title|Title", e.cls)
    [] loc = "div|span|p[class~text|Text|partial_entry]" ->
         e.tag \in {"div", "span", "p"}
           /\ RegexSearch("text|Text|partial_entry", e.cls)
    [] loc = "span|div[class~date|Date|ratingDate]" ->
         e.tag \in {"span", "div"} /\ RegexSearch("date|Date|ratingDate", e.cls)
    [] loc = "div|span|a[class~username|member|author]" ->
         e.tag \in {"div", "span", "a"}
           /\ RegexSearch("username|member|author", e.cls)
    [] loc = "span|div[class~overall rating]" ->
         e.tag \in {"span", "div"}
           /\ RegexSearch("(?i)overall.*rating|rating.*overall", e.cls)
    [] loc = "span|div[class~review count]" ->
         e.tag \in {"span", "div"}
           /\ RegexSearch("(?i)review.*count|count.*review|reviewCount", e.cls)
    [] loc = "div|span|li[class~amenity]" ->
         e.tag \in {"div", "span", "li"}
           /\ RegexSearch("(?i)amenity|amenities|feature", e.cls)
    [] loc = "span|div|address[class~address]" ->
         e.tag \in {"span", "div", "address"}
           /\ RegexSearch("(?i)address|location|street", e.cls)
    [] OTHER -> FALSE

\* node.find_all(<locator>): every descendant the locator matches, in
\* document order
FindAllLoc(node, loc) ==
  SelectSeq(Descendants(node), LAMBDA e : LocMatch(loc, e))

\* node.find(<locator>): the first descendant the locator matches, or None
FindLoc(node, loc) ==
  LET all == FindAllLoc(node, loc)
  IN  IF all = <<>> THEN NoElem ELSE all[1]

RECURSIVE FindChainLastWins(_, _)
\* a chain evaluated with the operands of "or" swapped
FindChainLastWins(card, chain) ==
  IF chain = <<>> THEN NoElem
  ELSE ElemOr(FindChainLastWins(card, Tail(chain)), FindLoc(card, Head(chain)))

RECURSIVE FindChain(_, _)
\* card.find(l1) or card.find(l2) or ... for the locators of a chain
FindChain(card, chain) ==
  IF chain = <<>> THEN NoElem
  ELSE ElemOr(FindLoc(card, Head(chain)), FindChain(card, Tail(chain)))

\* if elem: d[key] = elem.get_text(strip=True)
SetText(d, key, elem) ==
  IF elem # NoElem THEN DictSet(d, key, PyStr(GetText(elem))) ELSE d

\* the amenities list of a card
Amenities(card) ==
  LET amenities_container == FindLoc(card, "div[class*=facility]")
      amenity_items ==
        IF amenities_container = NoElem THEN <<>>
        ELSE FindAllLoc(amenities_container, "span|div")
      texts == [i \in 1..Len(amenity_items) |-> PyStr(GetText(amenity_items[i]))]
  IN  PyList(SelectSeq(texts, Truthy))

\* the href is kept whatever it starts with
LinkKept(card) ==
  LET link_elem == FindLoc(card, "a[href]")
  IN  IF link_elem = NoElem THEN PyNone ELSE PyStr(link_elem.href)

\* lines 151-158: the link of a card
Link(card) ==
  LET link_elem == FindLoc(card, "a[href]")
  IN  IF link_elem = NoElem THEN PyNone
      ELSE IF StartsWith(link_elem.href, "/")
           THEN PyStr("https://www.booking.com" \o link_elem.href)
      ELSE IF StartsWith(link_elem.href, "http") THEN PyStr(link_elem.href)
      ELSE PyNone

\* the image URL of a card
ImageUrl(card) ==
  LET img_elem == FindLoc(card, "img")
  IN  IF img_elem = NoElem THEN PyNone
      ELSE PyOr(AttrVal(img_elem.src), AttrVal(img_elem.data_src))

\* the body of the card loop up to the append: hotel_data of card number i
HotelData(i, card) ==
  LET d0 == PyDict(<< <<"id", PyInt(i)>>, <<"name", PyNone>>,
                      <<"price", PyNone>>, <<"rating", PyNone>>,
                      <<"review_score", PyNone>>, <<"review_count", PyNone>>,
                      <<"location", PyNone>>, <<"distance", PyNone>>,
                      <<"amenities", PyList(<<>>)>>, <<"image_url", PyNone>>,
                      <<"link", PyNone>> >>)
      d1 == SetText(d0, "name", FindChain(card, NameChain))
      d2 == SetText(d1, "price", FindChain(card, PriceChain))
      d3 == SetText(d2, "rating", FindChain(card, RatingChain))
      d4 == SetText(d3, "review_count",
                    FindLoc(card, "div[data-testid=review-score-text]"))
      d5 == SetText(d4, "location", FindChain(card, LocationChain))
      d6 == SetText(d5, "distance", FindChain(card, DistanceChain))
      d7 == IF FindLoc(card, "div[class*=facility]") # NoElem
            THEN DictSet(d6, "amenities", Amenities(card)) ELSE d6
      d8 == IF FindLoc(card, "img") # NoElem
            THEN DictSet(d7, "image_url", ImageUrl(card)) ELSE d7
  IN  DictSet(d8, "link", Link(card))

\* a record inserted at the front of the list
PrependRecord(list, rec) == <<rec>> \o list

\* list.append(rec)
AppendRecord(list, rec) == Append(list, rec)

\* a condition that keeps every record
KeepHotelAlways(d) == TRUE

\* a test for None in place of the truth test
KeepHotelNotNone(d) == DictGet(d, "name") # PyNone

\* whether the record of a card is appended: if hotel_data['name']
KeepHotel(d) == Truthy(DictGet(d, "name"))

\* the results of the three selectors put together
SelectCardsMerged(doc) ==
  FindAllLoc(doc, "div[data-testid=property-card]")
    \o FindAllLoc(doc, "div[class*=property-card]")
    \o FindAllLoc(doc, "div[data-testid*=property]")

\* the three card selectors, each consulted only if the earlier ones are empty
SelectCards(doc) ==
  LET c1 == FindAllLoc(doc, "div[data-testid=property-card]")
      c2 == FindAllLoc(doc, "div[class*=property-card]")
      c3 == FindAllLoc(doc, "div[data-testid*=property]")
  IN  IF c1 # <<>> THEN c1 ELSE IF c2 # <<>> THEN c2 ELSE c3

\* the page title
PageTitle(doc) ==
  LET page_title == FindLoc(doc, "title")
  IN  IF page_title # NoElem THEN GetText(page_title) ELSE "No title found"

\* a result dict that counts the cards found
BookingResultCountsCards(t, url, hs, clock) ==
  PyDict(<< <<"page_title", PyStr(t)>>,
            <<"url", PyStr(url)>>,
            <<"total_hotels", PyInt(Len(hotel_cards))>>,
            <<"scraped_at", PyStr(StrfTime(clock))>>,
            <<"hotels", PyList(hs)>> >>)

\* the result dict of scrape_booking_hotels
BookingResult(t, url, hs, clock) ==
  PyDict(<< <<"page_title", PyStr(t)>>,
            <<"url", PyStr(url)>>,
            <<"total_hotels", PyInt(Len(hs))>>,
            <<"scraped_at", PyStr(StrfTime(clock))>>,
            <<"hotels", PyList(hs)>> >>)

----------------------------------------------------------------------------
(* kaggle_booking_scraper.py: the module-level script *)

KAGGLE_URL == "https://www.booking.com/searchresults.html?ss=North+Goa"

\* elem.text: the strings of the element and its descendants, joined
RawText(elem) ==
  LET all == <<elem>> \o Descendants(elem)
  IN  Concat([i \in 1..Len(all) |-> all[i].text])

\* elem.text.strip() if elem else 'N/A'
TextOrNA(elem) ==
  IF elem # NoElem THEN PyStr(Strip(RawText(elem))) ELSE PyStr("N/A")

\* lines 35-41: the rating of a hotel element
KaggleRating(hotel) ==
  LET rating_container == FindLoc(hotel, "div[data-testid=rating-stars]")
      filled_stars ==
        IF rating_container = NoElem THEN <<>>
        ELSE FindAllLoc(rating_container, "div[class*=e0397]")
  IN  IF filled_stars # <<>>
      THEN PyStr(ToString(Len(filled_stars)) \o "/5")
      ELSE PyStr("N/A")

\* lines 22-49: the record appended for a hotel element
KaggleRecord(hotel) ==
  PyDict(<< <<"name", TextOrNA(FindLoc(hotel, "div[data-testid=title]"))>>,
            <<"location", TextOrNA(FindLoc(hotel, "span[data-testid=address]"))>>,
            <<"price",
              TextOrNA(FindLoc(hotel, "span[data-testid=price-and-discounted-price]"))>>,
            <<"rating", KaggleRating(hotel)>> >>)

\* lines 66-71: json_data
KaggleJsonData(url, hotels_data, clock) ==
  PyDict(<< <<"search_url", PyStr(url)>>,
            <<"total_hotels", PyInt(Len(hotels_data))>>,
            <<"scraped_at", PyStr(StrfTime(clock))>>,
            <<"hotels", PyList(hotels_data)>> >>)

----------------------------------------------------------------------------
(* example_usage.py: basic_scraping_example *)

THRILLO_URL == "https://www.thrillophilia.com/things-to-do-in-pune"
THRILLO_FILE == "thrillophilia_pune_attractions.json"

\* elem.get_text(strip=True) if elem else default
TextOr(elem, default) == IF elem # NoElem THEN GetText(elem) ELSE default

\* lines 45-63: page_title
ThrilloPageTitle(doc) ==
  LET main_heading_div == FindLoc(doc, "h1.constructed-heading")
      count == TextOr(FindLoc(main_heading_div, "span.value"), "")
      title_div == FindLoc(main_heading_div, "h3[class=h3 title]")
      t == IF title_div # NoElem
           THEN TextOr(FindLoc(title_div, "span.title"), "No title found")
           ELSE "No title found"
  IN  IF main_heading_div = NoElem THEN "No title found"
      ELSE IF count = "" THEN t
      ELSE IF t = "" THEN count
      ELSE count \o " " \o t

\* the non-empty stripped texts of a list of elements
NonEmptyTexts(elems) ==
  SelectSeq([i \in 1..Len(elems) |-> GetText(elems[i])], LAMBDA x : x # "")

\* text_holder.get_text(strip=True, separator=' ')
GetTextSep(elem) ==
  LET all == <<elem>> \o Descendants(elem)
  IN  JoinSpace(SelectSeq([i \in 1..Len(all) |-> Strip(all[i].text)],
                          LAMBDA x : x # ""))

StrList(ss) == PyList([i \in 1..Len(ss) |-> PyStr(ss[i])])

\* lines 101-132: post_data['content']
ThrilloContent(post_card) ==
  LET text_holder == FindLoc(post_card, "div[class=text-holder read-more-wrap]")
      paragraphs_text == NonEmptyTexts(FindAllLoc(text_holder, "p"))
      spans_text == NonEmptyTexts(FindAllLoc(text_holder, "span"))
      all_text == paragraphs_text \o spans_text
  IN  IF text_holder = NoElem
      THEN PyDict(<< <<"paragraphs", PyList(<<>>)>>, <<"spans", PyList(<<>>)>>,
                     <<"full_text", PyStr("No content found")>> >>)
      ELSE IF all_text # <<>>
      THEN PyDict(<< <<"paragraphs", StrList(paragraphs_text)>>,
                     <<"spans", StrList(spans_text)>>,
                     <<"full_text", PyStr(JoinSpace(all_text))>> >>)
      ELSE PyDict(<< <<"paragraphs", PyList(<<>>)>>, <<"spans", PyList(<<>>)>>,
                     <<"full_text", PyStr(GetTextSep(text_holder))>> >>)

\* attr.get(name, default)
AttrOr(a, default) == IF a = NoAttr THEN default ELSE a

\* lines 80-148: post_data of a post card
PostData(post_card) ==
  LET d0 == PyDict(<< <<"id", PyStr(AttrOr(post_card.data_id, "No ID"))>> >>)
      left_side == FindLoc(post_card, "div.left-side")
      number_span == FindLoc(left_side, "span.number")
      d1 == IF left_side # NoElem /\ number_span # NoElem
            THEN DictSet(d0, "number", PyStr(GetText(number_span))) ELSE d0
      title_h3 == FindLoc(post_card, "h3[class=h3 title]")
      d2 == DictSet(d1, "title", PyStr(TextOr(title_h3, "No title found")))
      d3 == DictSet(d2, "content", ThrilloContent(post_card))
      img_div == FindLoc(post_card, "div.image")
      img_tag == FindLoc(img_div, "img")
      d4 == IF img_div # NoElem /\ img_tag # NoElem
            THEN DictSet(DictSet(d3, "image_url",
                                 PyOr(PyStr(AttrOr(img_tag.src, "")),
                                      PyStr(AttrOr(img_tag.data_src, "")))),
                         "image_alt", PyStr(AttrOr(img_tag.alt, "")))
            ELSE d3
      link_tag == FindLoc(post_card, "a")
      href == IF link_tag = NoElem THEN "" ELSE AttrOr(link_tag.href, "")
  IN  IF href # ""
      THEN DictSet(d4, "link",
                   PyStr(IF StartsWith(href, "/")
                         THEN "https://www.thrillophilia.com" \o href ELSE href))
      ELSE d4

\* lines 154-160: json_data
ThrilloJsonData(page_title, url, attractions, clock) ==
  PyDict(<< <<"page_title", PyStr(page_title)>>,
            <<"url", PyStr(url)>>,
            <<"total_attractions", PyInt(Len(attractions))>>,
            <<"scraped_at", PyStr(StrfTime(clock))>>,
            <<"attractions", PyList(attractions)>> >>)

\* lines 184-189: result
ThrilloResult(page_title, url, attractions) ==
  PyDict(<< <<"page_title", PyStr(page_title)>>,
            <<"url", PyStr(url)>>,
            <<"total_attractions", PyInt(Len(attractions))>>,
            <<"attractions", PyList(attractions)>> >>)

----------------------------------------------------------------------------
(* booking_scraper.py: scrape_hotel_details *)

\* the hotel_url argument
HOTEL_URL == "https://www.booking.com/hotel/a"

\* lines 247-272: hotel_details with the name, the description and the
\* facilities found on the hotel page
HotelDetails(doc, hotel_url) ==
  LET name_elem == FindLoc(doc, "h2[class*=name]")
      desc_elem == FindLoc(doc, "div[data-testid=property-description]")
      paragraphs == FindAllLoc(desc_elem, "p")
      facilities_section == FindLoc(doc, "div[class*=facility]")
      facility_items == FindAllLoc(facilities_section, "span")
  IN  PyDict(<< <<"url", PyStr(hotel_url)>>,
                <<"name", IF name_elem # NoElem THEN PyStr(GetText(name_elem))
                          ELSE PyNone>>,
                <<"description",
                  IF desc_elem # NoElem
                  THEN PyStr(JoinSpace([i \in 1..Len(paragraphs) |->
                                          GetText(paragraphs[i])]))
                  ELSE PyNone>>,
                <<"facilities",
                  IF facilities_section # NoElem
                  THEN StrList(NonEmptyTexts(facility_items))
                  ELSE PyList(<<>>)>>,
                <<"room_types", PyList(<<>>)>>,
                <<"policies", PyDict(<<>>)>>,
                <<"reviews", PyList(<<>>)>> >>)

----------------------------------------------------------------------------
(* tripadvisor_scraper.py: TripAdvisorScraper and its __main__ block *)

TRIP_URL == "https://www.tripadvisor.com/Hotel_Review-g293860-d302088"
\* a second page, for the url lists handed to scrape_multiple_pages
OTHER_TRIP_URL == "https://www.tripadvisor.com/Hotel_Review-g293860-d302089"
TRIP_FILE == "tripadvisor_data.json"
TRIP_TXT == "tripadvisor_llm_input.txt"

\* _extract_rating(text): the first number of the text, as a float
ExtractRating(text) ==
  CASE text = "['bubble_50'] 5 of 5 bubbles" -> PyFloat("5.0")
    [] text = "['rating'] 4 of 5 bubbles" -> PyFloat("4.0")
    [] text = "4.5 of 5" -> PyFloat("4.5")
    [] OTHER -> PyNone

\* _extract_number(text): the first run of digits, commas removed
ExtractNumber(text) ==
  CASE text = "1,234 reviews" -> PyInt(1234)
    [] text = "Jan 2024" -> PyInt(2024)
    [] OTHER -> PyNone

\* str(elem.get('class', [])) + ' ' + elem.get('aria-label', '')
RatingText(elem) ==
  (IF elem.cls = NoAttr THEN "[]" ELSE "['" \o elem.cls \o "']")
    \o " " \o AttrOr(elem.aria_label, "")

\* lines 137-170: review_data of a review container
ReviewData(container) ==
  LET rating_elem == FindLoc(container, "span|div[class~rating|Rating|bubble]")
      d1 == IF rating_elem # NoElem
            THEN DictSet(PyDict(<<>>), "rating",
                         ExtractRating(RatingText(rating_elem)))
            ELSE PyDict(<<>>)
      d2 == SetText(d1, "title", FindLoc(container, "div|span|a[class~title|Title]"))
      d3 == SetText(d2, "text",
                    FindLoc(container, "div|span|p[class~text|Text|partial_entry]"))
      d4 == SetText(d3, "date",
                    FindLoc(container, "span|div[class~date|Date|ratingDate]"))
  IN  SetText(d4, "author",
              FindLoc(container, "div|span|a[class~username|member|author]"))

\* lines 130-175: extract_reviews
ExtractReviews(doc) ==
  LET review_containers == FindAllLoc(doc, "div|article[class~review|Review]")
      all == [i \in 1..Len(review_containers) |-> ReviewData(review_containers[i])]
  IN  PyList(SelectSeq(all, Truthy))

\* lines 187-207: extract_ratings_summary
ExtractRatingsSummary(doc) ==
  LET rating_elem == FindLoc(doc, "span|div[class~overall rating]")
      count_elem == FindLoc(doc, "span|div[class~review count]")
  IN  PyDict(<< <<"overall_rating",
                  IF rating_elem # NoElem
                  THEN ExtractRating(GetText(rating_elem)) ELSE PyNone>>,
                <<"total_reviews",
                  IF count_elem # NoElem
                  THEN ExtractNumber(GetText(count_elem)) ELSE PyNone>>,
                <<"rating_distribution", PyDict(<<>>)>> >>)

RECURSIVE Dedup(_)
\* the distinct elements of a sequence, in order of first occurrence
Dedup(xs) ==
  IF xs = <<>> THEN <<>>
  ELSE LET front == Dedup(SubSeq(xs, 1, Len(xs) - 1))
           last == xs[Len(xs)]
       IN  IF \E i \in 1..Len(front) : front[i] = last
           THEN front ELSE Append(front, last)

Reverse(xs) == [i \in 1..Len(xs) |-> xs[Len(xs) + 1 - i]]

\* a list(set(xs)) whose order changes from call to call
ListOfSetUnstable(seed, xs) ==
  IF (seed + now) % 4 = 0 THEN Dedup(xs) ELSE Reverse(Dedup(xs))

\* list(set(xs)): the distinct elements, in the iteration order of the set,
\* which the string hashes of the process decide
ListOfSet(seed, xs) == IF seed = 0 THEN Dedup(xs) ELSE Reverse(Dedup(xs))

\* lines 219-230: extract_amenities
ExtractAmenities(doc, seed) ==
  LET amenity_containers == FindAllLoc(doc, "div|span|li[class~amenity]")
      texts == [i \in 1..Len(amenity_containers) |-> GetText(amenity_containers[i])]
      amenities == SelectSeq(texts, LAMBDA t : t # "" /\ Len(t) < 100)
  IN  StrList(ListOfSet(seed, amenities))

\* lines 243-268: extract_links
ExtractLinks(doc, base_url, seed) ==
  LET a_tags == FindAllLoc(doc, "a[href]")
      full_urls == [i \in 1..Len(a_tags) |-> UrlJoin(base_url, a_tags[i].href)]
      IsInternal(u) == Contains("tripadvisor", NetLoc(u)) \/ NetLoc(u) = ""
      img_tags == FindAllLoc(doc, "img[src]")
      images == [i \in 1..Len(img_tags) |-> UrlJoin(base_url, img_tags[i].src)]
  IN  PyDict(<< <<"internal",
                  StrList(ListOfSet(seed, SelectSeq(full_urls, IsInternal)))>>,
                <<"external",
                  StrList(ListOfSet(seed, SelectSeq(full_urls, LAMBDA u : ~IsInternal(u))))>>,
                <<"images", StrList(ListOfSet(seed, images))>> >>)

\* the headings of one level: lines 84-91
HeadingsOf(doc, level) ==
  LET texts == NonEmptyTexts(FindAllLoc(doc, "h" \o ToString(level)))
  IN  [i \in 1..Len(texts) |->
         PyDict(<< <<"level", PyInt(level)>>, <<"text", PyStr(texts[i])>> >>)]

\* the <li> texts of a list element: line 103
ListItems(lst) ==
  LET lis == FindAllLoc(lst, "li")
  IN  [i \in 1..Len(lis) |-> PyStr(GetText(lis[i]))]

RECURSIVE MetaData(_, _)
\* lines 111-116: the metadata dict filled from the <meta> elements
MetaData(d, metas) ==
  IF metas = <<>> THEN d
  ELSE LET meta == Head(metas)
           name == PyOr(AttrVal(meta.name), AttrVal(meta.property))
           content == AttrVal(meta.content)
       IN  MetaData(IF Truthy(name) /\ Truthy(content)
                    THEN DictSet(d, Payload(name), content) ELSE d,
                    Tail(metas))

\* lines 69-118: extract_text_content
ExtractTextContent(doc) ==
  LET title_tag == FindLoc(doc, "title")
      lists == FindAllLoc(doc, "ul|ol")
      withItems == SelectSeq(lists, LAMBDA l : ListItems(l) # <<>>)
  IN  PyDict(<< <<"title", PyStr(TextOr(title_tag, ""))>>,
                <<"headings",
                  PyList(HeadingsOf(doc, 1) \o HeadingsOf(doc, 2)
                         \o HeadingsOf(doc, 3) \o HeadingsOf(doc, 4)
                         \o HeadingsOf(doc, 5) \o HeadingsOf(doc, 6))>>,
                <<"paragraphs", StrList(NonEmptyTexts(FindAllLoc(doc, "p")))>>,
                <<"lists",
                  PyList([i \in 1..Len(withItems) |->
                            PyDict(<< <<"type", PyStr(withItems[i].tag)>>,
                                      <<"items", PyList(ListItems(withItems[i]))>> >>)])>>,
                <<"metadata", MetaData(PyDict(<<>>), FindAllLoc(doc, "meta"))>> >>)

\* json.loads(script.string) of a schema.org script; PyNone stands for the
\* exception that "except: pass" swallows
LdJson(text) ==
  CASE text = "{\"address\": \"Haridasji Ki Magri\", \"geo\": {\"latitude\": 24}}" ->
         PyDict(<< <<"address", PyStr("Haridasji Ki Magri")>>,
                   <<"geo", PyDict(<< <<"latitude", PyInt(24)>> >>)>> >>)
    [] text = "[1]" -> PyList(<<PyInt(1)>>)
    [] OTHER -> PyNone

RECURSIVE LocationFromScripts(_, _)
\* lines 294-304: the loop over the schema.org scripts
LocationFromScripts(location, scripts) ==
  IF scripts = <<>> THEN location
  ELSE LET data == LdJson(Head(scripts).text)
           l1 == IF TypeOf(data) = "dict" /\ DictHas(data, "address")
                 THEN DictSet(location, "address", DictGet(data, "address"))
                 ELSE location
           l2 == IF TypeOf(data) = "dict" /\ DictHas(data, "geo")
                 THEN DictSet(l1, "coordinates", DictGet(data, "geo"))
                 ELSE l1
       IN  LocationFromScripts(l2, Tail(scripts))

\* lines 280-306: extract_location_info
ExtractLocationInfo(doc) ==
  LET address_elem == FindLoc(doc, "span|div|address[class~address]")
      l0 == PyDict(<< <<"address",
                        IF address_elem # NoElem
                        THEN PyStr(GetText(address_elem)) ELSE PyNone>>,
                      <<"city", PyNone>>, <<"country", PyNone>>,
                      <<"coordinates", PyDict(<<>>)>> >>)
  IN  LocationFromScripts(l0, FindAllLoc(doc, "script[type=application/ld+json]"))

\* lines 325-334: the result dict of scrape_page
ScrapePageResult(doc, url, clock, seed) ==
  PyDict(<< <<"url", PyStr(url)>>,
            <<"scraped_at", PyStr(StrfTime(clock))>>,
            <<"content", ExtractTextContent(doc)>>,
            <<"reviews", ExtractReviews(doc)>>,
            <<"ratings", ExtractRatingsSummary(doc)>>,
            <<"amenities", ExtractAmenities(doc, seed)>>,
            <<"location", ExtractLocationInfo(doc)>>,
            <<"links", ExtractLinks(doc, url, seed)>> >>)

\* line 322: what scrape_page returns when fetch_page returned None
FetchFailed == PyDict(<< <<"error", PyStr("Failed to fetch page")>> >>)

\* d.get(k, default)
DictGetOr(d, k, default) == IF DictHas(d, k) THEN DictGet(d, k) ELSE default

\* str(v) of an f-string field
Str(v) ==
  CASE TypeOf(v) = "str" -> Payload(v)
    [] TypeOf(v) = "float" -> Payload(v)
    [] TypeOf(v) = "int" -> ToString(Payload(v))
    [] TypeOf(v) = "NoneType" -> "None"
    [] OTHER -> "{...}"

\* lines 376-431: the lines format_for_llm joins with newlines
FormatForLLM(data) ==
  LET content == DictGetOr(data, "content", PyDict(<<>>))
      c_title == DictGetOr(content, "title", PyNone)
      headings == DictGetOr(content, "headings", PyNone)
      ratings == DictGetOr(data, "ratings", PyNone)
      overall == DictGetOr(ratings, "overall_rating", PyNone)
      total == DictGetOr(ratings, "total_reviews", PyNone)
      address == DictGetOr(DictGetOr(data, "location", PyDict(<<>>)), "address", PyNone)
      amenities == DictGetOr(data, "amenities", PyNone)
      reviews == DictGetOr(data, "reviews", PyNone)
      paragraphs == DictGetOr(content, "paragraphs", PyNone)
      RECURSIVE Hashes(_)
      Hashes(n) == IF n = 0 THEN "" ELSE "#" \o Hashes(n - 1)
      HeadingLine(h) ==
        "  " \o Hashes(Payload(DictGet(h, "level"))) \o " "
             \o Payload(DictGet(h, "text"))
      ReviewField(r, k, label) ==
        IF Truthy(DictGetOr(r, k, PyNone))
        THEN <<"  " \o label \o ": " \o
                 (IF k = "text" THEN Take(Str(DictGet(r, k)), 200) \o "..."
                  ELSE Str(DictGet(r, k)))>>
        ELSE <<>>
      ReviewLines(i, r) ==
        <<"\nReview " \o ToString(i) \o ":">>
          \o ReviewField(r, "rating", "Rating") \o ReviewField(r, "title", "Title")
          \o ReviewField(r, "text", "Text") \o ReviewField(r, "date", "Date")
      RECURSIVE AllReviews(_, _)
      AllReviews(i, rs) ==
        IF i > Len(rs) THEN <<>> ELSE ReviewLines(i, rs[i]) \o AllReviews(i + 1, rs)
      long == SelectSeq(Take(Payload(paragraphs), 10), LAMBDA q : Len(Payload(q)) > 50)
  IN  (IF Truthy(c_title) THEN <<"TITLE: " \o Str(c_title) \o "\n">> ELSE <<>>)
      \o (IF Truthy(headings)
          THEN <<"HEADINGS:">>
                 \o [i \in 1..Len(Payload(headings)) |-> HeadingLine(Payload(headings)[i])]
                 \o <<"">>
          ELSE <<>>)
      \o (IF Truthy(ratings)
          THEN <<"RATINGS:">>
                 \o (IF Truthy(overall) THEN <<"  Overall: " \o Str(overall)>> ELSE <<>>)
                 \o (IF Truthy(total) THEN <<"  Total Reviews: " \o Str(total)>> ELSE <<>>)
                 \o <<"">>
          ELSE <<>>)
      \o (IF Truthy(address) THEN <<"LOCATION: " \o Str(address) \o "\n">> ELSE <<>>)
      \o (IF Truthy(amenities)
          THEN <<"AMENITIES:">>
                 \o [i \in 1..Len(Take(Payload(amenities), 20)) |->
                       "  - " \o Payload(Payload(amenities)[i])]
                 \o <<"">>
          ELSE <<>>)
      \o (IF Truthy(reviews)
          THEN <<"REVIEWS:">> \o AllReviews(1, Take(Payload(reviews), 10)) \o <<"">>
          ELSE <<>>)
      \o (IF Truthy(paragraphs)
          THEN <<"MAIN CONTENT:">>
                 \o [i \in 1..Len(long) |-> "  " \o Payload(long[i]) \o "\n"]
          ELSE <<>>)

\* the content of a text file holding the given lines
TextFile(lines) == <<"text", lines>>

----------------------------------------------------------------------------
(* example_usage.py: the examples that load the JSON file of               *)
(* basic_scraping_example                                                  *)

LLM_INPUT_FILE == "thrillophilia_llm_input.txt"
TITLES_FILE == "thrillophilia_titles_only.json"

Loaders == {"llm_integration_example", "custom_extraction_example",
            "search_specific_content_example", "save_structured_data_example"}

\* a file whose text is not JSON: a JSON document cut off after its first
\* brace
MalformedFile == TextFile(<<"{">>)

\* a file whose text is the empty JSON object {}
EmptyObjectFile == <<"object", <<>> >>

\* json.load accepts the text of the file
IsJson(content) ==
  content[1] \in {"null", "string", "number", "real", "array", "object"}

RECURSIVE PromptLines(_)
\* lines 241-244: the text added to llm_prompt for each attraction; the
\* texts of the pages are shorter than the 200 characters kept
PromptLines(attractions) ==
  IF attractions = <<>> THEN ""
  ELSE LET attraction == Head(attractions)
       IN  Str(DictGetOr(attraction, "number", PyStr(""))) \o ". "
             \o Str(DictGet(attraction, "title")) \o "\n"
             \o (IF Truthy(DictGetOr(attraction, "content", PyNone))
                 THEN "   "
                        \o Str(DictGet(DictGet(attraction, "content"), "full_text"))
                        \o "...\n\n"
                 ELSE "")
             \o PromptLines(Tail(attractions))

\* lines 239-244: llm_prompt
LlmPrompt(data) ==
  "Here are " \o Str(DictGet(data, "total_attractions"))
    \o " things to do in Pune:\n\n"
    \o PromptLines(Take(Payload(DictGet(data, "attractions")), 5))

\* lines 272-278: titles_and_links
TitlesAndLinks(data) ==
  LET attractions == Payload(DictGet(data, "attractions"))
  IN  PyList([i \in 1..Len(attractions) |->
                PyDict(<< <<"title", DictGet(attractions[i], "title")>>,
                          <<"link", DictGetOr(attractions[i], "link",
                                              PyStr("No link"))>> >>)])

\* lines 301-308: the line printed for each keyword, with the number of
\* attractions whose text mentions it
KeywordLines(data) ==
  LET attractions == Payload(DictGet(data, "attractions"))
      keywords == <<"camping", "adventure", "historical">>
      Mentions(attraction, keyword) ==
        /\ Truthy(DictGetOr(attraction, "content", PyNone))
        /\ Contains(Lower(keyword),
                    Lower(Str(DictGet(DictGet(attraction, "content"),
                                      "full_text"))))
  IN  [k \in 1..3 |->
         "Attractions mentioning '" \o keywords[k] \o "': "
           \o ToString(Len(SelectSeq(attractions,
                                     LAMBDA a : Mentions(a, keywords[k]))))]

\* lines 325-329: titles_only
TitlesOnly(data) ==
  LET attractions == Payload(DictGet(data, "attractions"))
  IN  PyDict(<< <<"page_title", DictGet(data, "page_title")>>,
                <<"total", DictGet(data, "total_attractions")>>,
                <<"titles", PyList([i \in 1..Len(attractions) |->
                                      DictGet(attractions[i], "title")])>> >>)

----------------------------------------------------------------------------
(* llm_summarizer.py *)

THRILLO_SUMMARY == "thrillophilia_summary.txt"
BOOKING_SUMMARY == "booking_summary.txt"
GUIDE_FILE == "combined_travel_guide.txt"

\* load_json, lines 28-38: the value returned, None for a file that is
\* missing or is not JSON
LoadJsonValue(content) ==
  IF content = NoFile \/ ~IsJson(content) THEN PyNone ELSE JsonLoad(content)

\* load_json, lines 33-38: what it prints
LoadJsonMessage(content) ==
  IF content = NoFile THEN <<"Error: File not found">>
  ELSE IF ~IsJson(content) THEN <<"Error: Invalid JSON">>
  ELSE <<>>

\* the open() of load_json succeeds when the file exists
LoadJsonOpened(name, content) ==
  IF content = NoFile THEN <<>> ELSE << <<name, "r">> >>

\* what ollama.generate does: it returns a response with this text, or
\* raises
LlmOutcomes == {"Summary text", "", "<raises>"}

\* generate_summary, lines 50-67: the response text, None when
\* ollama.generate raised
GenerateSummary(outcome) ==
  IF outcome = "<raises>" THEN PyNone ELSE PyStr(outcome)

\* summarize_thrillophilia_data, lines 84-107: the prompt, as the template
\* and the values put into it
ThrilloPrompt(data) ==
  LET attractions == Take(Payload(DictGetOr(data, "attractions", PyList(<<>>))), 15)
      Line(attraction) ==
        LET content == DictGetOr(attraction, "content", PyDict(<<>>))
        IN  "- " \o Str(DictGetOr(attraction, "title", PyStr("N/A"))) \o ": "
              \o (IF TypeOf(content) = "dict"
                  THEN Str(DictGetOr(content, "full_text", PyStr("")))
                  ELSE Str(content))
  IN  << "You are a travel expert.",
         Str(DictGetOr(data, "page_title", PyStr("N/A"))),
         Str(DictGetOr(data, "total_attractions", PyInt(0))),
         Str(DictGetOr(data, "scraped_at", PyStr("N/A"))) >>
        \o [i \in 1..Len(attractions) |-> Line(attractions[i])]

\* summarize_booking_data, lines 126-157: the prompt
BookingPrompt(data) ==
  LET hotels_found == Payload(DictGetOr(data, "hotels", PyList(<<>>)))
      sample == Take(hotels_found, 10)
      Field(hotel, key) == Str(DictGetOr(hotel, key, PyStr("N/A")))
      Line(hotel) ==
        "- " \o Field(hotel, "name") \o " | Location: " \o Field(hotel, "location")
          \o " | Price: " \o Field(hotel, "price")
          \o " | Rating: " \o Field(hotel, "rating")
  IN  << "You are a travel accommodation expert.",
         Str(DictGetOr(data, "search_url", PyStr("N/A"))),
         ToString(Len(hotels_found)),
         Str(DictGetOr(data, "scraped_at", PyStr("N/A"))) >>
        \o [i \in 1..Len(sample) |-> Line(sample[i])]

\* compare_both_datasets, lines 180-214: the prompt
GuidePrompt(thrillophilia_data, booking_data) ==
  LET attractions ==
        Take(Payload(DictGetOr(thrillophilia_data, "attractions", PyList(<<>>))), 10)
      hotels_found == Payload(DictGetOr(booking_data, "hotels", PyList(<<>>)))
      sample == Take(hotels_found, 8)
      Field(hotel, key) == Str(DictGetOr(hotel, key, PyStr("N/A")))
  IN  << "You are an expert travel planner.",
         Str(DictGetOr(thrillophilia_data, "total_attractions", PyInt(0))) >>
        \o [i \in 1..Len(attractions) |->
              ToString(i) \o ". "
                \o Str(DictGetOr(attractions[i], "title", PyStr("N/A")))]
        \o << ToString(Len(hotels_found)) >>
        \o [i \in 1..Len(sample) |->
              ToString(i) \o ". " \o Field(sample[i], "name") \o " - "
                \o Field(sample[i], "location") \o " - "
                \o Field(sample[i], "rating")]

\* the lines the menu can read from input()
Choices == {"1", "2", "3", "4", " 3 ", "5", ""}

\* the line is compared as typed, without strip()
FirstCallUntrimmed(line) ==
  CASE line = "1" -> "summarize_thrillophilia_data"
    [] line = "2" -> "summarize_booking_data"
    [] line = "3" -> "compare_both_datasets"
    [] line = "4" -> "summarize_thrillophilia_data"
    [] OTHER -> "done"

\* main, lines 245-309: the first summarize method of a choice ("done" for
\* an invalid choice)
FirstCall(line) ==
  CASE Strip(line) = "1" -> "summarize_thrillophilia_data"
    [] Strip(line) = "2" -> "summarize_booking_data"
    [] Strip(line) = "3" -> "compare_both_datasets"
    [] Strip(line) = "4" -> "summarize_thrillophilia_data"
    [] OTHER -> "done"

\* main, lines 274-306: under choice 4 the methods follow one another; any
\* other choice ends after its method
NextCall(line, method) ==
  IF Strip(line) # "4" THEN "done"
  ELSE CASE method = "summarize_thrillophilia_data" -> "summarize_booking_data"
         [] method = "summarize_booking_data" -> "compare_both_datasets"
         [] OTHER -> "done"

\* the Thrillophilia summary is saved over the file it was made from
SummaryFileOverInput(method) ==
  CASE method = "summarize_thrillophilia_data" -> THRILLO_FILE
    [] method = "summarize_booking_data" -> BOOKING_SUMMARY
    [] OTHER -> GUIDE_FILE

\* the file main saves the summary of a method to
SummaryFile(method) ==
  CASE method = "summarize_thrillophilia_data" -> THRILLO_SUMMARY
    [] method = "summarize_booking_data" -> BOOKING_SUMMARY
    [] OTHER -> GUIDE_FILE

----------------------------------------------------------------------------
(* The documents the remote sites serve *)

\* the elements the locators of each field look for, and others they pass by

FieldGroups ==
  {
    \* name
    { Elem("div", "title", NoAttr, "Hotel A", <<>>),
      Elem("div", "title", NoAttr, "  ", <<>>),
      Elem("h3", NoAttr, NoAttr, " Hotel D ", <<>>),
      Elem("div", NoAttr, "Card-Title", "Hotel C", <<>>) },
    \* price
    { Elem("span", "price-and-discounted-price", NoAttr, "$100", <<>>),
      Elem("div", NoAttr, "price-tag", "$90", <<>>) },
    \* rating and review count
    { Elem("div", "review-score", NoAttr, "8.5", <<>>),
      Elem("div", NoAttr, "review-score-badge", "9.0", <<>>),
      Elem("div", "review-score-text", NoAttr, "120 reviews", <<>>) },
    \* location
    { Elem("span", "address", NoAttr, "Goa", <<>>),
      Elem("span", NoAttr, "address-line", "Calangute", <<>>) },
    \* distance
    { Elem("span", "distance", NoAttr, "2 km", <<>>),
      Elem("span", NoAttr, "distance-km", "5 km", <<>>) },
    \* amenities and image
    { Elem("div", NoAttr, "facility-list", "",
           << Elem("span", NoAttr, NoAttr, "Pool", <<>>),
              Elem("div", NoAttr, NoAttr, "  ", <<>>),
              Elem("span", NoAttr, NoAttr, " WiFi ", <<>>) >>),
      Img("a.jpg", NoAttr),
      Img("", "b.jpg") },
    \* link
    { Anchor("/hotel/a", ""),
      Anchor("http://hotel.example/b", ""),
      Anchor("hotel/rel", ""),
      Anchor(NoAttr, "") }
  }

\* cards found by the first selector, whose children are up to MaxElems
\* elements of one field, alone or after a title
RichCards ==
  LET of_a_field == UNION { SeqUpTo(G, MaxElems) : G \in FieldGroups }
      with_title == { <<Elem("div", "title", NoAttr, "Hotel A", <<>>)>> \o k :
                        k \in of_a_field }
  IN  { Elem("div", "property-card", NoAttr, "", k) :
          k \in of_a_field \cup with_title }

\* the cards of a page of several cards: with a title, without a title, and
\* with a title in each of the other kinds of <div>
BasicCards ==
  { Elem("div", "property-card", NoAttr, "",
         << Elem("div", "title", NoAttr, "Hotel A", <<>>),
            Elem("div", "rating-stars", NoAttr, "",
                 << Elem("div", NoAttr, "star e0397", "", <<>>),
                    Elem("div", NoAttr, "star e0397", "", <<>>),
                    Elem("div", NoAttr, "star", "", <<>>) >>) >>),
    Elem("div", "property-card", NoAttr, "",
         << Elem("span", "price-and-discounted-price", NoAttr, "$100", <<>>),
            Elem("span", "address", NoAttr, "Goa", <<>>) >>),
    Elem("div", NoAttr, "Property-Card-Wide", "",
         << Elem("h3", NoAttr, NoAttr, " Hotel D ", <<>>),
            Elem("span", "address", NoAttr, "Goa", <<>>) >>),
    Elem("div", "property-item", NoAttr, "",
         << Elem("div", "title", NoAttr, "Hotel A", <<>>) >>) }

Document(kids) == Elem("[document]", NoAttr, NoAttr, "", kids)

\* search-result pages of up to MaxCards basic cards
BasicPages == { Document(cs) : cs \in SeqUpTo(BasicCards, MaxCards) }

\* search-result pages: one card of any shape under a <title>, or basic cards
BookingPages ==
  { Document(<<Elem("title", NoAttr, NoAttr, "Hotels in Goa", <<>>), c>>) :
      c \in RichCards }
  \cup BasicPages

\* hotel pages of up to MaxElems elements
DetailPages ==
  LET elems ==
        { Elem("h2", NoAttr, "hotel-name", " Hotel D ", <<>>),
          Elem("h2", NoAttr, NoAttr, "Hotel A", <<>>),
          Elem("div", "property-description", NoAttr, "",
               << Elem("p", NoAttr, NoAttr, "Pool", <<>>),
                  Elem("p", NoAttr, NoAttr, " WiFi ", <<>>) >>),
          Elem("div", NoAttr, "facility-list", "",
               << Elem("span", NoAttr, NoAttr, "Pool", <<>>),
                  Elem("span", NoAttr, NoAttr, "  ", <<>>) >>) }
  IN  { Document(es) : es \in SeqUpTo(elems, MaxElems) }

\* the body of an HTTP error answer
ErrorPage == Document(<<Elem("title", NoAttr, NoAttr, "403 Forbidden", <<>>)>>)

\* the post cards of a Thrillophilia page
PostCard(data_id, kids) ==
  [Elem("div", NoAttr, "base-block main-card-container content-main-card",
        "", kids) EXCEPT !.data_id = data_id]

ThrilloCards ==
  { PostCard("101",
      << Elem("div", NoAttr, "left-side", "",
              <<Elem("span", NoAttr, "number", "1", <<>>)>>),
         Elem("h3", NoAttr, "h3 title", "Aga Khan Palace", <<>>),
         Elem("div", NoAttr, "text-holder read-more-wrap", "",
              << Elem("p", NoAttr, NoAttr, "Historic palace", <<>>),
                 Elem("span", NoAttr, NoAttr, "2 hours", <<>>) >>),
         Elem("div", NoAttr, "image", "",
              <<[Img("", "aga.jpg") EXCEPT !.alt = "Aga Khan Palace"]>>),
         Anchor("/places/aga", "") >>),
    PostCard(NoAttr,
      << Elem("h3", NoAttr, "title", "Sinhagad", <<>>),
         Elem("div", NoAttr, "text-holder read-more-wrap", "Fort trek", <<>>),
         Anchor("", "") >>),
    PostCard("103",
      << Elem("h3", NoAttr, "h3 title", "Shaniwar Wada", <<>>) >>),
    PostCard("104",
      << Elem("div", NoAttr, "left-side", "",
              <<Elem("span", NoAttr, "number", "4", <<>>)>>),
         Elem("div", NoAttr, "text-holder read-more-wrap", "",
              <<Elem("p", NoAttr, NoAttr, "Lake walk", <<>>)>>),
         Elem("div", NoAttr, "image", "", <<Img("lake.jpg", NoAttr)>>),
         Anchor("https://maps.example/lake", "") >>) }

ThrilloHeadings ==
  { <<>>,
    << Elem("h1", NoAttr, "constructed-heading", "",
            << Elem("span", NoAttr, "value", "25", <<>>),
               Elem("h3", NoAttr, "h3 title", "",
                    <<Elem("span", NoAttr, "title", "Things to do in Pune", <<>>)>>) >>) >> }

\* attraction pages: with or without heading, with or without post holder
ThrilloPages ==
  { Document(h) : h \in ThrilloHeadings }
  \cup { Document(h \o <<[Elem("div", NoAttr, "post-holder clearfix", "", cs)
                           EXCEPT !.itemprop = "articleBody"]>>) :
           h \in ThrilloHeadings, cs \in SeqUpTo(ThrilloCards, MaxCards) }

\* the elements a TripAdvisor page is made of: those of the page content,
\* those of the reviews, the amenities, and the links and images

TripGroups ==
  {
    \* page content
    { Elem("head", NoAttr, NoAttr, "",
           << Elem("title", NoAttr, NoAttr, "The Oberoi Udaivilas", <<>>),
              [Elem("meta", NoAttr, NoAttr, "", <<>>)
                 EXCEPT !.property = "og:title", !.content = "Oberoi"],
              [Elem("script", NoAttr, NoAttr,
                    "{\"address\": \"Haridasji Ki Magri\", \"geo\": {\"latitude\": 24}}",
                    <<>>)
                 EXCEPT !.type = "application/ld+json"] >>),
      [Elem("script", NoAttr, NoAttr, "{broken", <<>>)
         EXCEPT !.type = "application/ld+json"],
      Elem("div", NoAttr, NoAttr, "",
           << Elem("h2", NoAttr, NoAttr, "Overview", <<>>),
              Elem("p", NoAttr, NoAttr,
                   "A palace hotel on the bank of Lake Pichola, built over thirty acres.",
                   <<>>),
              Elem("ul", NoAttr, NoAttr, "",
                   << Elem("li", NoAttr, NoAttr, "Pool", <<>>),
                      Elem("li", NoAttr, "amenities-item", "Spa", <<>>) >>) >>),
      Elem("div", NoAttr, NoAttr, "",
           << Elem("span", NoAttr, "overall-rating", "4.5 of 5", <<>>),
              Elem("span", NoAttr, "reviewCount", "1,234 reviews", <<>>),
              Elem("address", NoAttr, "street-address", "Udaipur", <<>>) >>) },
    \* reviews
    { Elem("div", NoAttr, "review-container", "",
           << [Elem("span", NoAttr, "bubble_50", "", <<>>)
                 EXCEPT !.aria_label = "5 of 5 bubbles"],
              Elem("span", NoAttr, "quote-title", "Wonderful", <<>>),
              Elem("p", NoAttr, "partial_entry", "Great stay", <<>>),
              Elem("span", NoAttr, "ratingDate", "Jan 2024", <<>>),
              Elem("div", NoAttr, "member_info", "alice", <<>>) >>),
      Elem("div", NoAttr, "review-stub", "Be the first to write", <<>>),
      Elem("article", NoAttr, "Review", "",
           <<Elem("div", NoAttr, "rating", "", <<>>)>>) },
    \* amenities
    { Elem("li", NoAttr, "amenity", "Pool", <<>>),
      Elem("div", NoAttr, "Feature", "Pool", <<>>),
      Elem("span", NoAttr, "amenities-item", "Spa", <<>>) },
    \* links and images
    { Anchor("/Hotel_Review-x", "More"),
      Anchor("https://other.example/z", "Partner"),
      Img("/img/a.jpg", NoAttr) }
  }

\* TripAdvisor pages of up to MaxElems elements of one kind
TripPages ==
  { Document(es) :
      es \in UNION { SeqUpTo(G, MaxElems) : G \in TripGroups } }

----------------------------------------------------------------------------
(* weather_service.py: WeatherService *)

GEOCODING_URL == "http://api.openweathermap.org/geo/1.0/direct"
WEATHER_URL == "https://api.openweathermap.org/data/2.5/weather"
FORECAST_URL == "https://api.openweathermap.org/data/2.5/forecast"

\* requests.get(url, params=params, timeout=10)
GetParams(url, params) == <<"GET", url, params>>

\* the api_key argument and the OPENWEATHER_API_KEY variable: missing,
\* empty or a key
ApiKeyArgs == {PyNone, PyStr(""), PyStr("arg-key")}
EnvValues == {PyNone, PyStr(""), PyStr("env-key")}

\* the environment variable comes first
ApiKeyEnvFirst(arg, env) == PyOr(env, arg)

\* line 26: api_key or os.getenv('OPENWEATHER_API_KEY')
ApiKey(arg, env) == PyOr(arg, env)

\* the values of the units argument: the three documented ones and another
UnitSystems == {"metric", "imperial", "standard", "kelvin"}

\* the values of the days argument
DayCounts == {-1, 0, 1, 5}

Pad2(n) == IF n < 10 THEN "0" \o ToString(n) ELSE ToString(n)

\* datetime.fromtimestamp(dt).strftime('%Y-%m-%d'), in a process whose time
\* zone is UTC, for the timestamps of January 1970
DateOf(dt) == "1970-01-" \o Pad2(1 + dt \div 86400)

\* datetime.fromtimestamp(dt).strftime('%H:%M')
HourMinute(dt) == Pad2((dt \div 3600) % 24) \o ":" \o Pad2((dt \div 60) % 60)

\* datetime.fromtimestamp(dt).strftime('%H:%M:%S')
ClockTime(dt) == HourMinute(dt) \o ":" \o Pad2(dt % 60)

\* datetime.fromtimestamp(dt).strftime('%Y-%m-%d %H:%M:%S')
DateTime(dt) == DateOf(dt) \o " " \o ClockTime(dt)

RECURSIVE HasPath(_, _)
\* whether d[k1][k2]... can be evaluated without a KeyError or IndexError;
\* an integer k indexes a list
HasPath(d, path) ==
  IF path = <<>> THEN TRUE
  ELSE IF TypeOf(d) = "dict"
       THEN DictHas(d, Head(path)) /\ HasPath(DictGet(d, Head(path)), Tail(path))
  ELSE IF TypeOf(d) = "list"
       THEN /\ Head(path) \in 0..(Len(Payload(d)) - 1)
            /\ HasPath(Payload(d)[Head(path) + 1], Tail(path))
  ELSE FALSE

RECURSIVE Path(_, _)
\* d[k1][k2]...
Path(d, path) ==
  IF path = <<>> THEN d
  ELSE IF TypeOf(d) = "dict" THEN Path(DictGet(d, Head(path)), Tail(path))
  ELSE Path(Payload(d)[Head(path) + 1], Tail(path))

\* the bodies of a 2xx geocoding response: up to MaxGeo of the locations the
\* API knows
GeoResponses ==
  LET known ==
  { PyDict(<< <<"name", PyStr("London")>>,
              <<"local_names", PyDict(<< <<"fr", PyStr("Londres")>> >>)>>,
              <<"lat", PyFloat("51.5073219")>>,
              <<"lon", PyFloat("-0.1276474")>>,
              <<"country", PyStr("GB")>>,
              <<"state", PyStr("England")>> >>),
    PyDict(<< <<"name", PyStr("Paris")>>,
              <<"lat", PyFloat("48.8588897")>>,
              <<"lon", PyFloat("2.3200410")>>,
              <<"country", PyStr("FR")>> >>),
    PyDict(<< <<"lat", PyFloat("35.6828387")>>,
              <<"lon", PyFloat("139.7594549")>> >>) }
  IN  SeqUpTo(known, MaxGeo)

\* get_coordinates, lines 70-79: one formatted location
FormatLocation(location) ==
  PyDict(<< <<"name", DictGetOr(location, "name", PyNone)>>,
            <<"lat", DictGetOr(location, "lat", PyNone)>>,
            <<"lon", DictGetOr(location, "lon", PyNone)>>,
            <<"country", DictGetOr(location, "country", PyNone)>>,
            <<"state", DictGetOr(location, "state", PyStr(""))>> >>)

\* get_coordinates, lines 64-81: the value returned for the response body data
GetCoordinates(data) ==
  IF ~Truthy(PyList(data)) THEN <<>>
  ELSE [i \in 1..Len(data) |-> FormatLocation(data[i])]

\* the last of the locations instead of the first
LastLocation(locs) == locs[Len(locs)]

\* lines 178 and 263: location = locations[0]
FirstLocation(locs) == locs[1]

\* the mutant of NotLocations: the by-city functions go on without a location
NotLocationsSkipped(locs) == FALSE

\* get_weather_by_city, line 175, and get_forecast_by_city, line 260:
\* not locations
NotLocations(locs) == ~Truthy(PyList(locs))

\* line 129 and line 236: the temperature unit label
TemperatureUnit(u) ==
  IF u = "metric" THEN "°C" ELSE IF u = "imperial" THEN "°F" ELSE "K"

\* line 139: the wind unit label
WindUnit(u) == IF u = "metric" THEN "m/s" ELSE "mph"

\* line 143: metres / 1000, for the whole hundreds of metres
DivThousand(v) ==
  PyFloat(ToString(Payload(v) \div 1000) \o "." \o
          ToString((Payload(v) % 1000) \div 100))

\* line 226: pop * 100 in binary floating point
TimesHundred(v) ==
  CASE v = PyInt(0) -> PyInt(0)
    [] v = PyFloat("0.2") -> PyFloat("20.0")
    [] v = PyFloat("0.57") -> PyFloat("56.99999999999999")
    [] v = PyFloat("1") -> PyFloat("100.0")

\* the bodies of a 2xx answer of the weather endpoint: a full one, one
\* without the optional members, and one without the required members
WeatherBody(full) ==
  PyDict(<< <<"coord", PyDict(<< <<"lon", PyFloat("-0.1276")>>,
                                 <<"lat", PyFloat("51.5073")>> >>)>>,
            <<"weather", PyList(<< PyDict(<< <<"id", PyInt(802)>>,
                                            <<"main", PyStr("Clouds")>>,
                                            <<"description", PyStr("scattered clouds")>>,
                                            <<"icon", PyStr("03d")>> >>) >>)>>,
            <<"main", PyDict(<< <<"temp", PyFloat("11.3")>>,
                                <<"feels_like", PyFloat("10.6")>>,
                                <<"temp_min", PyFloat("9.9")>>,
                                <<"temp_max", PyFloat("12.4")>>,
                                <<"pressure", PyInt(1012)>>,
                                <<"humidity", PyInt(81)>> >>)>> >>
         \o (IF full THEN << <<"visibility", PyInt(8500)>> >> ELSE <<>>)
         \o << <<"wind", PyDict(<< <<"speed", PyFloat("4.1")>> >>
                                \o (IF full THEN << <<"deg", PyInt(240)>> >>
                                    ELSE <<>>))>>,
               <<"clouds", PyDict(<< <<"all", PyInt(40)>> >>)>>,
               <<"dt", PyInt(43200)>>,
               <<"sys", PyDict(<< <<"country", PyStr("GB")>>,
                                  <<"sunrise", PyInt(21661)>>,
                                  <<"sunset", PyInt(64805)>> >>)>>,
               <<"name", PyStr("London")>> >>)

WeatherBodies ==
  { WeatherBody(TRUE), WeatherBody(FALSE),
    PyDict(<< <<"cod", PyInt(200)>>, <<"name", PyStr("London")>> >>) }

\* get_weather, lines 117-147: the members read with data[...]
WeatherRequired ==
  { <<"name">>, <<"sys", "country">>, <<"coord", "lat">>, <<"coord", "lon">>,
    <<"main", "temp">>, <<"main", "feels_like">>, <<"main", "temp_min">>,
    <<"main", "temp_max">>, <<"weather", 0, "main">>,
    <<"weather", 0, "description">>, <<"weather", 0, "icon">>,
    <<"wind", "speed">>, <<"main", "humidity">>, <<"main", "pressure">>,
    <<"clouds", "all">>, <<"sys", "sunrise">>, <<"sys", "sunset">>, <<"dt">> }

\* get_weather, lines 117-148: weather_info
WeatherInfo(data, u) ==
  PyDict(<<
    <<"location", Path(data, <<"name">>)>>,
    <<"country", Path(data, <<"sys", "country">>)>>,
    <<"coordinates", PyDict(<< <<"lat", Path(data, <<"coord", "lat">>)>>,
                               <<"lon", Path(data, <<"coord", "lon">>)>> >>)>>,
    <<"temperature",
      PyDict(<< <<"current", Path(data, <<"main", "temp">>)>>,
                <<"feels_like", Path(data, <<"main", "feels_like">>)>>,
                <<"min", Path(data, <<"main", "temp_min">>)>>,
                <<"max", Path(data, <<"main", "temp_max">>)>>,
                <<"unit", PyStr(TemperatureUnit(u))>> >>)>>,
    <<"weather",
      PyDict(<< <<"main", Path(data, <<"weather", 0, "main">>)>>,
                <<"description", Path(data, <<"weather", 0, "description">>)>>,
                <<"icon", Path(data, <<"weather", 0, "icon">>)>> >>)>>,
    <<"wind",
      PyDict(<< <<"speed", Path(data, <<"wind", "speed">>)>>,
                <<"deg", DictGetOr(DictGet(data, "wind"), "deg", PyInt(0))>>,
                <<"unit", PyStr(WindUnit(u))>> >>)>>,
    <<"humidity", Path(data, <<"main", "humidity">>)>>,
    <<"pressure", Path(data, <<"main", "pressure">>)>>,
    <<"visibility", DivThousand(DictGetOr(data, "visibility", PyInt(0)))>>,
    <<"clouds", Path(data, <<"clouds", "all">>)>>,
    <<"sunrise", PyStr(ClockTime(Payload(Path(data, <<"sys", "sunrise">>))))>>,
    <<"sunset", PyStr(ClockTime(Payload(Path(data, <<"sys", "sunset">>))))>>,
    <<"timestamp", PyStr(DateTime(Payload(DictGet(data, "dt"))))>> >>)

\* entry number i of the list of a forecast response: three hours apart,
\* every other one without a precipitation probability
ForecastItem(i) ==
  PyDict(<< <<"dt", PyInt(10800 * i)>>,
            <<"main", PyDict(<< <<"temp", PyFloat("11.3")>>,
                                <<"feels_like", PyFloat("10.6")>>,
                                <<"temp_min", PyFloat("9.9")>>,
                                <<"temp_max", PyFloat("12.4")>>,
                                <<"humidity", PyInt(81)>> >>)>>,
            <<"weather", PyList(<< PyDict(<< <<"main", PyStr("Rain")>>,
                                            <<"description", PyStr("light rain")>> >>) >>)>>,
            <<"wind", PyDict(<< <<"speed", PyFloat("4.1")>> >>)>> >>
         \o (IF i % 2 = 1
             THEN << <<"pop", IF i % 4 = 1 THEN PyFloat("0.2")
                              ELSE PyFloat("0.57")>> >>
             ELSE <<>>))

\* the body of a 2xx answer of the forecast endpoint with n entries
ForecastBody(n) ==
  PyDict(<< <<"cod", PyStr("200")>>,
            <<"list", PyList([i \in 1..n |-> ForecastItem(i)])>>,
            <<"city", PyDict(<< <<"name", PyStr("Tokyo")>>,
                                <<"coord", PyDict(<< <<"lat", PyFloat("35.6828")>>,
                                                     <<"lon", PyFloat("139.7595")>> >>)>>,
                                <<"country", PyStr("JP")>> >>)>> >>)

ForecastBodies ==
  { ForecastBody(n) : n \in {0, 7, 9, 40} }
  \cup { PyDict(<< <<"cod", PyStr("200")>> >>) }

\* get_forecast, lines 213-236: the members read with data[...]
ForecastRequired ==
  { <<"list">>, <<"city", "name">>, <<"city", "country">>,
    <<"city", "coord", "lat">>, <<"city", "coord", "lon">> }

\* seq[:k]
SliceTo(seq, k) ==
  IF k >= 0 THEN Take(seq, k)
  ELSE IF Len(seq) + k <= 0 THEN <<>> ELSE SubSeq(seq, 1, Len(seq) + k)

\* get_forecast, lines 214-227: one entry of forecast_list
ForecastEntry(item) ==
  PyDict(<<
    <<"datetime", PyStr(DateTime(Payload(DictGet(item, "dt"))))>>,
    <<"date", PyStr(DateOf(Payload(DictGet(item, "dt"))))>>,
    <<"time", PyStr(HourMinute(Payload(DictGet(item, "dt"))))>>,
    <<"temp", Path(item, <<"main", "temp">>)>>,
    <<"feels_like", Path(item, <<"main", "feels_like">>)>>,
    <<"temp_min", Path(item, <<"main", "temp_min">>)>>,
    <<"temp_max", Path(item, <<"main", "temp_max">>)>>,
    <<"weather", Path(item, <<"weather", 0, "main">>)>>,
    <<"description", Path(item, <<"weather", 0, "description">>)>>,
    <<"humidity", Path(item, <<"main", "humidity">>)>>,
    <<"wind_speed", Path(item, <<"wind", "speed">>)>>,
    <<"rain_probability", TimesHundred(DictGetOr(item, "pop", PyInt(0)))>> >>)

\* get_forecast, lines 212-238: forecast_info
ForecastInfo(data, u, d) ==
  LET items == SliceTo(Payload(DictGet(data, "list")), d * 8)
  IN  PyDict(<<
        <<"location", Path(data, <<"city", "name">>)>>,
        <<"country", Path(data, <<"city", "country">>)>>,
        <<"coordinates",
          PyDict(<< <<"lat", Path(data, <<"city", "coord", "lat">>)>>,
                    <<"lon", Path(data, <<"city", "coord", "lon">>)>> >>)>>,
        <<"unit", PyStr(TemperatureUnit(u))>>,
        <<"forecast", PyList([i \in 1..Len(items) |-> ForecastEntry(items[i])])>> >>)

----------------------------------------------------------------------------
(* Process state *)

NoSoup == NoElem
NotReturned == <<"<running>", "">>
NoExc == "<no exception>"
NoData == PyDict(<<>>)

NoResponse == PyNone
NotLoaded == <<"<not loaded>", "">>
NoOutput == "<no file>"
NoObject == <<"<no object>", "">>

\* the scripts that scrape a site
Scrapers == {"booking", "kaggle", "thrillophilia", "tripadvisor"}

\* the by-city calls of the weather client
ByCity == {"get_weather_by_city", "get_forecast_by_city"}

\* the other entry points
Others == {"scrape_hotel_details", "scrape_multiple_pages", "WeatherService"}

Scripts == Scrapers \cup ByCity \cup Others \cup Loaders \cup {"llm_summarizer"}

OutputFiles == {BOOKING_FILE, THRILLO_FILE, TRIP_FILE, TRIP_TXT}

\* every file a script opens
Files == OutputFiles \cup {LLM_INPUT_FILE, TITLES_FILE}
           \cup {THRILLO_SUMMARY, BOOKING_SUMMARY, GUIDE_FILE}

\* the pages the site of a script can serve
PagesOf(sc) ==
  CASE sc = "booking" -> BookingPages
    [] sc = "kaggle" -> BasicPages
    [] sc = "thrillophilia" -> ThrilloPages
    [] sc = "tripadvisor" -> TripPages
    [] sc = "scrape_hotel_details" -> DetailPages
    [] sc = "scrape_multiple_pages" -> { t \in TripPages : Len(t.kids) <= 1 }
    [] OTHER -> {NoSoup}

\* the JSON file a script writes
OutputOf(sc) ==
  CASE sc = "booking" -> BOOKING_FILE
    [] sc = "kaggle" -> BOOKING_FILE
    [] sc = "thrillophilia" -> THRILLO_FILE
    [] sc = "tripadvisor" -> TRIP_FILE
    [] OTHER -> NoOutput

\* the contents file n can have when the first script starts: a scraper of
\* a short page finds its output file missing or old, the readers find
\* their input files missing or cut off, the summarizer also empty
Before(sc, doc, n) ==
  CASE sc \in Scrapers ->
         IF n = OutputOf(sc) /\ Len(doc.kids) <= 1 THEN {NoFile, OldFile}
         ELSE {NoFile}
    [] sc \in Loaders -> IF n = THRILLO_FILE THEN {NoFile, MalformedFile}
                          ELSE {NoFile}
    [] sc = "llm_summarizer" ->
         IF n = THRILLO_FILE THEN {NoFile, MalformedFile, EmptyObjectFile}
         ELSE IF n = BOOKING_FILE
         THEN {NoFile, MalformedFile, EmptyObjectFile, OldFile}
         ELSE {NoFile}
    [] OTHER -> {NoFile}

\* the files a script can find when it starts
InitialFiles(sc, doc) ==
  { [n \in Files |->
       CASE n = BOOKING_FILE -> b
         [] n = THRILLO_FILE -> t
         [] n = TRIP_FILE -> r
         [] OTHER -> NoFile] :
    b \in Before(sc, doc, BOOKING_FILE), t \in Before(sc, doc, THRILLO_FILE),
    r \in Before(sc, doc, TRIP_FILE) }

\* a page of at most one item node
ShortPage(sc, doc) ==
  IF sc = "thrillophilia"
  THEN Len(FindAllLoc(doc, "div[class=base-block main-card-container content-main-card]")) <= 1
  ELSE Len(doc.kids) <= 1

\* the scripts the user can run after a scraper, on the files it left: the
\* loaders after a basic_scraping_example that saved its file, and after a
\* scraper of a short page the summarizer and the scrapers of the other
\* sites
RunAfter(sc, doc, log) ==
  (IF sc = "thrillophilia" /\ log # <<>> THEN Loaders ELSE {})
    \cup (IF ShortPage(sc, doc)
          THEN {"llm_summarizer", "booking", "kaggle", "thrillophilia"} \ {sc}
          ELSE {})

\* the short pages of every site, by the script that requests them
ShortPages ==
  [sc \in Scripts |-> { d \in PagesOf(sc) : d = NoSoup \/ ShortPage(sc, d) }]

\* the short pages a site serves to the script run next
ShortPagesOf(sc) == ShortPages[sc]

\* the url lists a caller hands to scrape_multiple_pages
UrlLists == SeqUpTo({TRIP_URL, OTHER_TRIP_URL}, MaxUrls)

\* the delay is skipped
SleepSkipped(secs) == <<"sleep", 0>>

\* time.sleep(secs), as an entry of net
Sleep(secs) == <<"sleep", secs>>
Get(url) == <<"GET", url>>
\* the answer to a request: a response with its status code, or the
\* exception requests raises when no response arrives
Response(status) == <<"response", status>>
TransportError == <<"raise", "requests.exceptions.ConnectionError">>

\* status codes for which raise_for_status raises HTTPError
HTTPErrors == {403, 429, 500}

\* the handler prints the line of the other statuses for every status
HTTPErrorMessageGeneric(status) == "HTTP Error"

\* except requests.exceptions.HTTPError: the remediation text for status
\* 403, the error itself for any other status
HTTPErrorMessage(status) ==
  IF status = 403 THEN "403 Forbidden Error" ELSE "HTTP Error"

Init ==
  /\ script \in Scripts
  /\ pc = "start"
  /\ page \in PagesOf(script)
  /\ soup = NoSoup
  /\ hotel_cards = <<>>
  /\ idx = 0
  /\ hotel_data = NoData
  /\ hotels = <<>>
  /\ title = ""
  /\ result = NoData
  /\ ret = NotReturned
  /\ raised = NoExc
  /\ files \in InitialFiles(script, page)
  /\ net = <<>>
  /\ printed = <<>>
  /\ now = 0
  /\ run = 1
  /\ first = NotReturned
  /\ hashseed \in (IF script = "tripadvisor" THEN {0, 1} ELSE {0})
  /\ units \in (IF script \in ByCity THEN UnitSystems ELSE {"metric"})
  /\ days \in (IF script = "get_forecast_by_city" THEN DayCounts ELSE {5})
  /\ geo = NoResponse
  /\ locations = <<>>
  /\ loaded = NotLoaded
  /\ opened = <<>>
  /\ api_key \in (CASE script = "WeatherService" -> ApiKeyArgs
                       [] script \in ByCity -> {PyStr("arg-key")}
                       [] OTHER -> {PyNone})
  /\ environ \in (IF script = "WeatherService" THEN EnvValues ELSE {PyNone})
  /\ self_api_key = (IF script \in ByCity THEN api_key ELSE NoObject)
  /\ choice \in (IF script = "llm_summarizer" THEN Choices ELSE {""})
  /\ called = <<>>
  /\ prompts = <<>>
  /\ urls \in (IF script = "scrape_multiple_pages" THEN UrlLists ELSE {<<>>})
  /\ results = <<>>
  /\ weather_data = NotReturned
  /\ response_data = NoResponse

weatherVars == <<units, days, geo, locations, weather_data,
                response_data>>
procVars == <<script, page, run, first, hashseed>>
\* the variables of the constructor, the summarizer menu and
\* scrape_multiple_pages
otherVars == <<api_key, environ, self_api_key, choice, called, prompts, urls,
               results>>

\* lines 40-74: the sleep, the request and, on a 2xx answer, the parse, the
\* page title and the card selection
BookingFetchOk ==
  /\ script = "booking" /\ pc = "start"
  /\ net' = net \o <<Sleep(2), Get(BOOKING_URL), Response(200)>>
  /\ now' = now + 2
  /\ soup' = page
  /\ hotels' = <<>>
  /\ title' = PageTitle(page)
  /\ hotel_cards' = SelectCards(page)
  /\ idx' = 0
  /\ printed' = printed \o <<"Fetching", "Page Title", "Found listings">>
  /\ pc' = "cards"
  /\ UNCHANGED <<hotel_data, result, ret, raised, files, procVars, weatherVars, loaded, otherVars, opened>>

\* lines 46-47 and 198-209: raise_for_status raises HTTPError
BookingFetchHTTPError ==
  /\ script = "booking" /\ pc = "start"
  /\ \E status \in HTTPErrors :
       /\ net' = net \o <<Sleep(2), Get(BOOKING_URL), Response(status)>>
       /\ printed' = printed \o <<"Fetching", HTTPErrorMessage(status)>>
  /\ now' = now + 2
  /\ ret' = PyNone
  /\ pc' = "done"
  /\ UNCHANGED <<soup, hotel_cards, idx, hotel_data, hotels, title, result,
                 raised, files, procVars, weatherVars, loaded, otherVars, opened>>

\* lines 46 and 211-215: the request raises (timeout, connection error)
BookingFetchException ==
  /\ script = "booking" /\ pc = "start"
  /\ net' = net \o <<Sleep(2), Get(BOOKING_URL), TransportError>>
  /\ now' = now + 2
  /\ printed' = printed \o <<"Fetching", "Error occurred">>
  /\ ret' = PyNone
  /\ pc' = "done"
  /\ UNCHANGED <<soup, hotel_cards, idx, hotel_data, hotels, title, result,
                 raised, files, procVars, weatherVars, loaded, otherVars, opened>>

\* the id of a record is its position in the hotels list
BookingCardCountsRecords ==
  /\ script = "booking" /\ pc = "cards"
  /\ idx < Len(hotel_cards)
  /\ idx' = idx + 1
  /\ hotel_data' = HotelData(Len(hotels) + 1, hotel_cards[idx + 1])
  /\ hotels' = IF KeepHotel(hotel_data')
               THEN AppendRecord(hotels, hotel_data') ELSE hotels
  /\ UNCHANGED <<pc, soup, hotel_cards, title, result, ret, raised, files, net,
                 printed, now, procVars, weatherVars, loaded, otherVars, opened>>

\* lines 77-162: one iteration of the card loop
BookingCard ==
  /\ script = "booking" /\ pc = "cards"
  /\ idx < Len(hotel_cards)
  /\ idx' = idx + 1
  /\ hotel_data' = HotelData(idx + 1, hotel_cards[idx + 1])
  /\ hotels' = IF KeepHotel(hotel_data')
               THEN AppendRecord(hotels, hotel_data') ELSE hotels
  /\ UNCHANGED <<pc, soup, hotel_cards, title, result, ret, raised, files, net,
                 printed, now, procVars, weatherVars, loaded, otherVars, opened>>

\* the JSON file is written only when a hotel was found
BookingSaveIfFound ==
  /\ script = "booking" /\ pc = "cards"
  /\ idx = Len(hotel_cards)
  /\ result' = BookingResult(title, BOOKING_URL, hotels, now)
  /\ files' = IF hotels = <<>> THEN files
               ELSE [files EXCEPT ![BOOKING_FILE] = JsonDump(result')]
  /\ opened' = IF hotels = <<>> THEN opened
                ELSE Append(opened, <<BOOKING_FILE, "w">>)
  /\ printed' = printed \o <<"Saved hotels">>
  /\ ret' = result'
  /\ pc' = "done"
  /\ UNCHANGED <<soup, hotel_cards, idx, hotel_data, hotels, title, raised,
                 net, now, procVars, weatherVars, loaded, otherVars>>

\* lines 164-196: the result dict, the JSON file and the return
BookingSave ==
  /\ script = "booking" /\ pc = "cards"
  /\ idx = Len(hotel_cards)
  /\ result' = BookingResult(title, BOOKING_URL, hotels, now)
  /\ files' = [files EXCEPT ![BOOKING_FILE] = JsonDump(result')]
  /\ opened' = Append(opened, <<BOOKING_FILE, "w">>)
  /\ printed' = printed \o <<"Saved hotels">>
  /\ ret' = result'
  /\ pc' = "done"
  /\ UNCHANGED <<soup, hotel_cards, idx, hotel_data, hotels, title, raised,
                 net, now, procVars, weatherVars, loaded, otherVars>>

\* scrape_hotel_details, lines 228-276, with a 2xx answer
DetailsFetchOk ==
  /\ script = "scrape_hotel_details" /\ pc = "start"
  /\ net' = net \o <<Sleep(2), Get(HOTEL_URL), Response(200)>>
  /\ now' = now + 2
  /\ soup' = page
  /\ result' = HotelDetails(page, HOTEL_URL)
  /\ ret' = result'
  /\ printed' = printed \o <<"Scraping Hotel Details", "Scraped details for">>
  /\ pc' = "done"
  /\ UNCHANGED <<hotel_cards, idx, hotel_data, hotels, title, raised, files,
                 procVars, weatherVars, loaded, otherVars, opened>>

\* scrape_hotel_details, lines 241-243 and 278-280: the request or
\* raise_for_status raises
DetailsFetchFailed ==
  /\ script = "scrape_hotel_details" /\ pc = "start"
  /\ \E answer \in {Response(status) : status \in HTTPErrors} \cup {TransportError} :
       net' = net \o <<Sleep(2), Get(HOTEL_URL), answer>>
  /\ now' = now + 2
  /\ printed' = printed \o <<"Scraping Hotel Details",
                              "Error scraping hotel details">>
  /\ ret' = PyNone
  /\ pc' = "done"
  /\ UNCHANGED <<soup, hotel_cards, idx, hotel_data, hotels, title, result,
                 raised, files, procVars, weatherVars, loaded, otherVars, opened>>

\* line 12: requests.get answers, with any status; lines 14-19: the parse
\* and the selection of the hotel elements
KaggleFetchResponse ==
  /\ script = "kaggle" /\ pc = "start"
  /\ \E status \in {200} \cup HTTPErrors :
       /\ net' = net \o <<Get(KAGGLE_URL), Response(status)>>
       /\ soup' = IF status = 200 THEN page ELSE ErrorPage
  /\ hotel_cards' = FindAllLoc(soup', "div[data-testid=property-card]")
  /\ hotels' = <<>>
  /\ idx' = 0
  /\ pc' = "cards"
  /\ UNCHANGED <<hotel_data, title, result, ret, raised, files, printed, now,
                 procVars, weatherVars, loaded, otherVars, opened>>

\* line 12: requests.get raises; nothing catches it
KaggleFetchException ==
  /\ script = "kaggle" /\ pc = "start"
  /\ net' = net \o <<Get(KAGGLE_URL), TransportError>>
  /\ raised' = "requests.exceptions.ConnectionError"
  /\ pc' = "done"
  /\ UNCHANGED <<soup, hotel_cards, idx, hotel_data, hotels, title, result, ret,
                 files, printed, now, procVars, weatherVars, loaded, otherVars, opened>>

\* lines 21-49: one iteration of the loop over the hotel elements
KaggleCard ==
  /\ script = "kaggle" /\ pc = "cards"
  /\ idx < Len(hotel_cards)
  /\ idx' = idx + 1
  /\ hotel_data' = KaggleRecord(hotel_cards[idx + 1])
  /\ hotels' = AppendRecord(hotels, hotel_data')
  /\ UNCHANGED <<pc, soup, hotel_cards, title, result, ret, raised, files, net,
                 printed, now, procVars, weatherVars, loaded, otherVars, opened>>

\* lines 51-78: the summary, json_data and the JSON file
KaggleSave ==
  /\ script = "kaggle" /\ pc = "cards"
  /\ idx = Len(hotel_cards)
  /\ result' = KaggleJsonData(KAGGLE_URL, hotels, now)
  /\ files' = [files EXCEPT ![BOOKING_FILE] = JsonDump(result')]
  /\ opened' = Append(opened, <<BOOKING_FILE, "w">>)
  /\ printed' = printed \o <<"Scraped hotels", "Data saved">>
  /\ pc' = "done"
  /\ UNCHANGED <<soup, hotel_cards, idx, hotel_data, hotels, title, ret, raised,
                 net, now, procVars, weatherVars, loaded, otherVars>>

\* lines 30-76: the sleep, the request and, on a 2xx answer, the parse, the
\* page title and the post cards of the post holder
ThrilloFetchOk ==
  /\ script = "thrillophilia" /\ pc = "start"
  /\ net' = net \o <<Sleep(2), Get(THRILLO_URL), Response(200)>>
  /\ now' = now + 2
  /\ soup' = page
  /\ hotels' = <<>>
  /\ title' = ThrilloPageTitle(page)
  /\ hotel_cards' =
       FindAllLoc(FindLoc(page, "div.post-holder[itemprop=articleBody]"),
                  "div[class=base-block main-card-container content-main-card]")
  /\ idx' = 0
  /\ printed' = printed \o
       (IF FindLoc(page, "div.post-holder[itemprop=articleBody]") # NoElem
        THEN <<"Page Title", "Found things to do">> ELSE <<"Page Title">>)
  /\ pc' = "cards"
  /\ UNCHANGED <<hotel_data, result, ret, raised, files, procVars, weatherVars, loaded, otherVars, opened>>

\* lines 35-36 and 193-204: raise_for_status raises HTTPError
ThrilloFetchHTTPError ==
  /\ script = "thrillophilia" /\ pc = "start"
  /\ \E status \in HTTPErrors :
       /\ net' = net \o <<Sleep(2), Get(THRILLO_URL), Response(status)>>
       /\ printed' = Append(printed, HTTPErrorMessage(status))
  /\ now' = now + 2
  /\ ret' = PyNone
  /\ pc' = "done"
  /\ UNCHANGED <<soup, hotel_cards, idx, hotel_data, hotels, title, result,
                 raised, files, procVars, weatherVars, loaded, otherVars, opened>>

\* lines 35 and 206-208: the request raises (timeout, connection error)
ThrilloFetchException ==
  /\ script = "thrillophilia" /\ pc = "start"
  /\ net' = net \o <<Sleep(2), Get(THRILLO_URL), TransportError>>
  /\ now' = now + 2
  /\ printed' = printed \o <<"Error occurred">>
  /\ ret' = PyNone
  /\ pc' = "done"
  /\ UNCHANGED <<soup, hotel_cards, idx, hotel_data, hotels, title, result,
                 raised, files, procVars, weatherVars, loaded, otherVars, opened>>

\* lines 79-151: one iteration of the loop over the post cards
ThrilloCard ==
  /\ script = "thrillophilia" /\ pc = "cards"
  /\ idx < Len(hotel_cards)
  /\ idx' = idx + 1
  /\ hotel_data' = PostData(hotel_cards[idx + 1])
  /\ hotels' = AppendRecord(hotels, hotel_data')
  /\ UNCHANGED <<pc, soup, hotel_cards, title, result, ret, raised, files, net,
                 printed, now, procVars, weatherVars, loaded, otherVars, opened>>

\* lines 153-191: with a post holder, json_data and the JSON file; in both
\* cases the result dict and the return
ThrilloSave ==
  /\ script = "thrillophilia" /\ pc = "cards"
  /\ idx = Len(hotel_cards)
  /\ IF FindLoc(soup, "div.post-holder[itemprop=articleBody]") # NoElem
     THEN /\ files' = [files EXCEPT ![THRILLO_FILE] =
                         JsonDump(ThrilloJsonData(title, THRILLO_URL, hotels, now))]
          /\ opened' = Append(opened, <<THRILLO_FILE, "w">>)
          /\ printed' = printed \o <<"Saved attractions">>
     ELSE /\ files' = files
          /\ opened' = opened
          /\ printed' = printed \o <<"Post holder div not found">>
  /\ result' = ThrilloResult(title, THRILLO_URL, hotels)
  /\ ret' = result'
  /\ pc' = "done"
  /\ UNCHANGED <<soup, hotel_cards, idx, hotel_data, hotels, title, raised,
                 net, now, procVars, weatherVars, loaded, otherVars>>

\* fetch_page, lines 50-54: the sleep, the request and the parse
TripFetchOk ==
  /\ script = "tripadvisor" /\ pc = "start"
  /\ net' = net \o <<Sleep(2), Get(TRIP_URL), Response(200)>>
  /\ now' = now + 2
  /\ printed' = printed \o <<"Scraping">>
  /\ soup' = page
  /\ pc' = "extract"
  /\ UNCHANGED <<hotel_cards, idx, hotel_data, hotels, title, result, ret,
                 raised, files, procVars, weatherVars, loaded, otherVars, opened>>

\* fetch_page, lines 52-57, and scrape_page, lines 321-322: the request or
\* raise_for_status raises a RequestException
TripFetchFailed ==
  /\ script = "tripadvisor" /\ pc = "start"
  /\ \E answer \in {Response(status) : status \in HTTPErrors} \cup {TransportError} :
       net' = net \o <<Sleep(2), Get(TRIP_URL), answer>>
  /\ now' = now + 2
  /\ printed' = printed \o <<"Scraping", "Error fetching">>
  /\ result' = FetchFailed
  /\ pc' = "save"
  /\ UNCHANGED <<soup, hotel_cards, idx, hotel_data, hotels, title, ret,
                 raised, files, procVars, weatherVars, loaded, otherVars, opened>>

\* scrape_page, lines 324-336: the extractors and the result dict
TripExtract ==
  /\ script = "tripadvisor" /\ pc = "extract"
  /\ result' = ScrapePageResult(soup, TRIP_URL, now, hashseed)
  /\ pc' = "save"
  /\ UNCHANGED <<soup, hotel_cards, idx, hotel_data, hotels, title, ret,
                 raised, files, net, printed, now, procVars, weatherVars, loaded, otherVars, opened>>

\* __main__, lines 463-475: save_to_json, format_for_llm and the text file
TripSave ==
  /\ script = "tripadvisor" /\ pc = "save"
  /\ files' = [files EXCEPT ![TRIP_FILE] = JsonDump(result),
                            ![TRIP_TXT] = TextFile(FormatForLLM(result))]
  /\ opened' = opened \o << <<TRIP_FILE, "w">>, <<TRIP_TXT, "w">> >>
  /\ printed' = printed \o <<"Data saved", "LLM-Formatted Output Preview">>
  /\ ret' = result
  /\ pc' = "done"
  /\ UNCHANGED <<soup, hotel_cards, idx, hotel_data, hotels, title, result,
                 raised, net, now, procVars, weatherVars, loaded, otherVars>>

\* scrape_multiple_pages, lines 349-351, one iteration of the loop with a
\* 2xx answer: scrape_page fetches the url (lines 50-54) and extracts
MultiPageOk ==
  /\ script = "scrape_multiple_pages" /\ pc = "start"
  /\ Len(results) < Len(urls)
  /\ LET url == urls[Len(results) + 1]
     IN  /\ net' = net \o <<Sleep(2), Get(url), Response(200)>>
         /\ result' = ScrapePageResult(page, url, now + 2, hashseed)
  /\ now' = now + 2
  /\ printed' = printed \o <<"Scraping">>
  /\ soup' = page
  /\ results' = Append(results, result')
  /\ UNCHANGED <<pc, hotel_cards, idx, hotel_data, hotels, title, ret, raised,
                 files, procVars, weatherVars, loaded, opened, api_key, environ,
                 self_api_key, choice, called, prompts, urls>>

\* scrape_multiple_pages, lines 349-351, one iteration of the loop in which
\* the request or raise_for_status raises: scrape_page returns the error
\* dict (lines 55-57 and 321-322) and the loop goes on
MultiPageFailed ==
  /\ script = "scrape_multiple_pages" /\ pc = "start"
  /\ Len(results) < Len(urls)
  /\ \E answer \in {Response(status) : status \in HTTPErrors} \cup {TransportError} :
       net' = net \o <<Sleep(2), Get(urls[Len(results) + 1]), answer>>
  /\ now' = now + 2
  /\ printed' = printed \o <<"Scraping", "Error fetching">>
  /\ result' = FetchFailed
  /\ results' = Append(results, result')
  /\ UNCHANGED <<pc, soup, hotel_cards, idx, hotel_data, hotels, title, ret,
                 raised, files, procVars, weatherVars, loaded, opened, api_key,
                 environ, self_api_key, choice, called, prompts, urls>>

\* scrape_multiple_pages, line 352: the list of the results
MultiReturn ==
  /\ script = "scrape_multiple_pages" /\ pc = "start"
  /\ Len(results) = Len(urls)
  /\ ret' = PyList(results)
  /\ pc' = "done"
  /\ UNCHANGED <<soup, hotel_cards, idx, hotel_data, hotels, title, result,
                 raised, files, net, printed, now, procVars, weatherVars, loaded,
                 opened, otherVars>>

\* WeatherService.__init__, lines 26-35: the key, or ValueError and no
\* object
WeatherServiceInit ==
  /\ script = "WeatherService" /\ pc = "start"
  /\ IF Truthy(ApiKey(api_key, environ))
     THEN /\ self_api_key' = ApiKey(api_key, environ)
          /\ raised' = raised
     ELSE /\ self_api_key' = self_api_key
          /\ raised' = "ValueError"
  /\ pc' = "done"
  /\ UNCHANGED <<soup, hotel_cards, idx, hotel_data, hotels, title, result, ret,
                 files, net, printed, now, procVars, weatherVars, loaded,
                 opened, api_key, environ, choice, called, prompts, urls,
                 results>>

\* the user runs another script, in a new process, on the files the scraper
\* that ended has left
RunNext ==
  /\ script \in {"booking", "kaggle", "thrillophilia"}
  /\ pc = "done" /\ run = 1
  /\ \E next \in RunAfter(script, page, opened) :
       /\ script' = next
       /\ page' \in ShortPagesOf(next)
       /\ choice' \in (IF next = "llm_summarizer" THEN Choices ELSE {""})
  /\ pc' = "start"
  /\ soup' = NoSoup
  /\ hotel_cards' = <<>>
  /\ idx' = 0
  /\ hotel_data' = NoData
  /\ hotels' = <<>>
  /\ title' = ""
  /\ result' = NoData
  /\ ret' = NotReturned
  /\ raised' = NoExc
  /\ net' = <<>>
  /\ printed' = <<>>
  /\ now' = 0
  /\ opened' = <<>>
  /\ UNCHANGED <<files, run, first, hashseed, weatherVars, loaded, api_key,
                 environ, self_api_key, called, prompts, urls, results>>

\* the caller calls the entry point a second time in the same process
Again ==
  /\ script \in {"booking", "tripadvisor"}
  /\ pc = "done" /\ run = 1
  /\ run' = 2
  /\ first' = ret
  /\ pc' = "start"
  /\ soup' = NoSoup
  /\ hotel_cards' = <<>>
  /\ idx' = 0
  /\ hotel_data' = NoData
  /\ title' = ""
  /\ result' = NoData
  /\ ret' = NotReturned
  /\ net' = <<>>
  /\ printed' = <<>>
  /\ UNCHANGED <<script, page, hotels, raised, files, now, hashseed,
                 weatherVars, loaded, otherVars, opened>>

\* llm_summarizer.load_json, lines 28-38, and the json.load calls of
\* example_usage: a reader loads the JSON file of the script that ended
LoadJson ==
  /\ script \in Scrapers /\ pc = "done"
  /\ loaded' = IF files[OutputOf(script)] = NoFile THEN PyNone
               ELSE JsonLoad(files[OutputOf(script)])
  /\ printed' = IF files[OutputOf(script)] = NoFile
                THEN printed \o <<"File not found">> ELSE printed
  /\ opened' = IF files[OutputOf(script)] = NoFile THEN opened
               ELSE Append(opened, <<OutputOf(script), "r">>)
  /\ pc' = "loaded"
  /\ UNCHANGED <<soup, hotel_cards, idx, hotel_data, hotels, title, result, ret,
                 raised, files, net, now, procVars, weatherVars, otherVars>>

\* example_usage.py, lines 228-339: one of the four examples that load the
\* JSON file.  A missing file is reported and None returned; the
\* JSONDecodeError of a file that is not JSON is not caught
ExampleLoad ==
  /\ script \in Loaders /\ pc = "start"
  /\ LET content == files[THRILLO_FILE]
         data == JsonLoad(content)
         header == CASE script = "llm_integration_example" -> "Example 3"
                     [] script = "custom_extraction_example" -> "Example 4"
                     [] script = "search_specific_content_example" -> "Example 5"
                     [] script = "save_structured_data_example" -> "Example 6"
     IN  IF content = NoFile
         THEN /\ printed' = printed \o
                   <<header, "Error: thrillophilia_pune_attractions.json not found">>
              /\ ret' = PyNone
              /\ UNCHANGED <<raised, files, opened, loaded>>
         ELSE IF ~IsJson(content)
         THEN /\ printed' = Append(printed, header)
              /\ raised' = "json.JSONDecodeError"
              /\ opened' = Append(opened, <<THRILLO_FILE, "r">>)
              /\ UNCHANGED <<ret, files, loaded>>
         ELSE /\ loaded' = data
              /\ raised' = raised
              /\ CASE script = "llm_integration_example" ->
                        /\ files' = [files EXCEPT ![LLM_INPUT_FILE] =
                                       TextFile(<<LlmPrompt(data)>>)]
                        /\ opened' = opened \o << <<THRILLO_FILE, "r">>,
                                                  <<LLM_INPUT_FILE, "w">> >>
                        /\ printed' = printed \o
                             <<header, "Formatted text for LLM",
                               "Saved to thrillophilia_llm_input.txt">>
                        /\ ret' = PyStr(LlmPrompt(data))
                   [] script = "custom_extraction_example" ->
                        /\ files' = files
                        /\ opened' = Append(opened, <<THRILLO_FILE, "r">>)
                        /\ printed' = printed \o <<header, "Extracted">>
                        /\ ret' = TitlesAndLinks(data)
                   [] script = "search_specific_content_example" ->
                        /\ files' = files
                        /\ opened' = Append(opened, <<THRILLO_FILE, "r">>)
                        /\ printed' = printed \o <<header>> \o KeywordLines(data)
                        /\ ret' = PyNone
                   [] script = "save_structured_data_example" ->
                        /\ files' = [files EXCEPT ![TITLES_FILE] =
                                       JsonDump(TitlesOnly(data))]
                        /\ opened' = opened \o << <<THRILLO_FILE, "r">>,
                                                  <<TITLES_FILE, "w">> >>
                        /\ printed' = printed \o
                             <<header, "Data saved in different formats">>
                        /\ ret' = PyNone
  /\ pc' = "done"
  /\ UNCHANGED <<soup, hotel_cards, idx, hotel_data, hotels, title, result, net,
                 now, procVars, weatherVars, otherVars>>

\* main, lines 228-309, up to the dispatch on the choice
MenuChoice ==
  /\ script = "llm_summarizer" /\ pc = "start"
  /\ pc' = FirstCall(choice)
  /\ printed' = printed \o <<"JSON Summary Generator", "Using Ollama model",
                              "Choose summary type">>
                   \o (IF FirstCall(choice) = "done" THEN <<"Invalid choice!">>
                       ELSE <<>>)
  /\ UNCHANGED <<soup, hotel_cards, idx, hotel_data, hotels, title, result, ret,
                 raised, files, net, now, procVars, weatherVars, loaded, opened,
                 otherVars>>

\* main under choice 4, lines 304-306, after the last method
AllDone(method) ==
  IF NextCall(choice, method) = "done" /\ Strip(choice) = "4"
  THEN <<"All summaries generated successfully!">> ELSE <<>>

\* main saves whatever the method returned, None included
SummarizeFileAlwaysSaves ==
  /\ script = "llm_summarizer"
  /\ pc \in {"summarize_thrillophilia_data", "summarize_booking_data"}
  /\ LET json_file == IF pc = "summarize_thrillophilia_data" THEN THRILLO_FILE
                      ELSE BOOKING_FILE
         data == LoadJsonValue(files[json_file])
         prompt == IF pc = "summarize_thrillophilia_data"
                   THEN ThrilloPrompt(data) ELSE BookingPrompt(data)
     IN  \E outcome \in LlmOutcomes :
           LET summary == IF Truthy(data) THEN GenerateSummary(outcome) ELSE PyNone
           IN  /\ loaded' = data
               /\ prompts' = IF Truthy(data) THEN Append(prompts, prompt)
                             ELSE prompts
               /\ files' = [files EXCEPT ![SummaryFile(pc)] =
                                     TextFile(<<Str(summary)>>)]
               /\ opened' = opened \o LoadJsonOpened(json_file, files[json_file])
                              \o << <<SummaryFile(pc), "w">> >>
               /\ printed' = printed \o LoadJsonMessage(files[json_file])
                               \o (IF ~Truthy(data) THEN <<>>
                                   ELSE IF outcome = "<raises>"
                                   THEN <<"Generating summary",
                                          "Error generating summary">>
                                   ELSE <<"Generating summary">>)
                               \o (IF Truthy(summary) THEN <<"Summary saved">>
                                   ELSE <<>>)
                               \o AllDone(pc)
  /\ called' = Append(called, pc)
  /\ pc' = NextCall(choice, pc)
  /\ UNCHANGED <<soup, hotel_cards, idx, hotel_data, hotels, title, result, ret,
                 raised, net, now, procVars, weatherVars, api_key, environ,
                 self_api_key, choice, urls, results>>

\* summarize_thrillophilia_data (lines 79-109) or summarize_booking_data
\* (lines 121-159) and what main does with the summary: load_json, the
\* prompt, generate_summary, and save_summary for a summary that is not
\* empty
SummarizeFile ==
  /\ script = "llm_summarizer"
  /\ pc \in {"summarize_thrillophilia_data", "summarize_booking_data"}
  /\ LET json_file == IF pc = "summarize_thrillophilia_data" THEN THRILLO_FILE
                      ELSE BOOKING_FILE
         data == LoadJsonValue(files[json_file])
         prompt == IF pc = "summarize_thrillophilia_data"
                   THEN ThrilloPrompt(data) ELSE BookingPrompt(data)
     IN  \E outcome \in LlmOutcomes :
           LET summary == IF Truthy(data) THEN GenerateSummary(outcome) ELSE PyNone
           IN  /\ loaded' = data
               /\ prompts' = IF Truthy(data) THEN Append(prompts, prompt)
                             ELSE prompts
               /\ files' = IF Truthy(summary)
                           THEN [files EXCEPT ![SummaryFile(pc)] =
                                   TextFile(<<Payload(summary)>>)]
                           ELSE files
               /\ opened' = opened \o LoadJsonOpened(json_file, files[json_file])
                              \o (IF Truthy(summary)
                                  THEN << <<SummaryFile(pc), "w">> >> ELSE <<>>)
               /\ printed' = printed \o LoadJsonMessage(files[json_file])
                               \o (IF ~Truthy(data) THEN <<>>
                                   ELSE IF outcome = "<raises>"
                                   THEN <<"Generating summary",
                                          "Error generating summary">>
                                   ELSE <<"Generating summary">>)
                               \o (IF Truthy(summary) THEN <<"Summary saved">>
                                   ELSE <<>>)
                               \o AllDone(pc)
  /\ called' = Append(called, pc)
  /\ pc' = NextCall(choice, pc)
  /\ UNCHANGED <<soup, hotel_cards, idx, hotel_data, hotels, title, result, ret,
                 raised, net, now, procVars, weatherVars, api_key, environ,
                 self_api_key, choice, urls, results>>

\* compare_both_datasets, line 172: the first load_json
CompareLoad ==
  /\ script = "llm_summarizer" /\ pc = "compare_both_datasets"
  /\ loaded' = LoadJsonValue(files[THRILLO_FILE])
  /\ opened' = opened \o LoadJsonOpened(THRILLO_FILE, files[THRILLO_FILE])
  /\ printed' = printed \o LoadJsonMessage(files[THRILLO_FILE])
  /\ called' = Append(called, pc)
  /\ pc' = "booking_data"
  /\ UNCHANGED <<soup, hotel_cards, idx, hotel_data, hotels, title, result, ret,
                 raised, files, net, now, procVars, weatherVars, api_key, environ,
                 self_api_key, choice, prompts, urls, results>>

\* compare_both_datasets, lines 173-216, and what main does with the
\* summary: the second load_json, the test of both values, the prompt,
\* generate_summary, and save_summary for a summary that is not empty
CompareGuide ==
  /\ script = "llm_summarizer" /\ pc = "booking_data"
  /\ LET thrillophilia_data == LoadJsonValue(files[THRILLO_FILE])
         booking_data == LoadJsonValue(files[BOOKING_FILE])
         both == Truthy(thrillophilia_data) /\ Truthy(booking_data)
     IN  \E outcome \in LlmOutcomes :
           LET summary == IF both THEN GenerateSummary(outcome) ELSE PyNone
           IN  /\ loaded' = booking_data
               /\ prompts' = IF both
                             THEN Append(prompts,
                                         GuidePrompt(thrillophilia_data, booking_data))
                             ELSE prompts
               /\ files' = IF Truthy(summary)
                           THEN [files EXCEPT ![GUIDE_FILE] =
                                   TextFile(<<Payload(summary)>>)]
                           ELSE files
               /\ opened' = opened \o LoadJsonOpened(BOOKING_FILE, files[BOOKING_FILE])
                              \o (IF Truthy(summary)
                                  THEN << <<GUIDE_FILE, "w">> >> ELSE <<>>)
               /\ printed' = printed \o LoadJsonMessage(files[BOOKING_FILE])
                               \o (IF ~both
                                   THEN <<"Error: Could not load one or both JSON files">>
                                   ELSE IF outcome = "<raises>"
                                   THEN <<"Generating summary",
                                          "Error generating summary">>
                                   ELSE <<"Generating summary">>)
                               \o (IF Truthy(summary) THEN <<"Summary saved">>
                                   ELSE <<>>)
                               \o AllDone("compare_both_datasets")
  /\ pc' = "done"
  /\ UNCHANGED <<soup, hotel_cards, idx, hotel_data, hotels, title, result, ret,
                 raised, net, now, procVars, weatherVars, api_key, environ,
                 self_api_key, choice, called, urls, results>>

scrapeVars == <<page, soup, hotel_cards, idx, hotel_data, hotels, title, result,
                files, now, run, first, hashseed, loaded, opened>>

\* get_coordinates(city, limit=1), lines 55-81, with a 2xx answer, and the
\* test of the by-city function on the value it returns (lines 173-179 and
\* 258-263)
GeocodeResponse ==
  /\ script \in ByCity /\ pc = "start"
  /\ net' = net \o <<GetParams(GEOCODING_URL, <<"limit", 1>>), Response(200)>>
  /\ \E data \in GeoResponses :
       /\ geo' = PyList(data)
       /\ locations' = GetCoordinates(data)
  /\ IF NotLocations(locations')
     THEN /\ ret' = PyNone
          /\ pc' = "done"
          /\ printed' = IF ~Truthy(geo') THEN printed \o <<"No results found">>
                        ELSE printed
     ELSE /\ ret' = ret
          /\ pc' = "located"
          /\ printed' = IF script = "get_weather_by_city"
                        THEN printed \o <<"Found">> ELSE printed
  /\ UNCHANGED <<script, units, days, weather_data, response_data, raised,
                 scrapeVars, otherVars>>

\* get_coordinates, lines 62-63 and 83-85: the request or raise_for_status
\* raises a RequestException; the by-city function returns None
GeocodeFailed ==
  /\ script \in ByCity /\ pc = "start"
  /\ \E answer \in {Response(status) : status \in HTTPErrors} \cup {TransportError} :
       net' = net \o <<GetParams(GEOCODING_URL, <<"limit", 1>>), answer>>
  /\ locations' = <<>>
  /\ printed' = printed \o <<"Error fetching coordinates">>
  /\ ret' = PyNone
  /\ pc' = "done"
  /\ UNCHANGED <<script, units, days, geo, weather_data, response_data, raised, scrapeVars,
                 otherVars>>

\* get_weather_by_city, lines 178-184, and get_weather, lines 104-150, with a
\* 2xx answer: weather_info, or the KeyError of a missing member
WeatherResponse ==
  /\ script = "get_weather_by_city" /\ pc = "located"
  /\ Len(locations) >= 1
  /\ net' = net \o <<GetParams(WEATHER_URL,
                               <<DictGet(FirstLocation(locations), "lat"),
                                 DictGet(FirstLocation(locations), "lon"), units>>),
                     Response(200)>>
  /\ response_data' \in WeatherBodies
  /\ IF \A path \in WeatherRequired : HasPath(response_data', path)
       THEN /\ weather_data' = WeatherInfo(response_data', units)
            /\ ret' = weather_data'
            /\ raised' = raised
       ELSE /\ weather_data' = weather_data
            /\ ret' = ret
            /\ raised' = "KeyError"
  /\ pc' = "done"
  /\ UNCHANGED <<script, units, days, geo, locations, printed, scrapeVars, otherVars>>

\* get_weather, lines 112-113 and 152-154: the request or raise_for_status
\* raises a RequestException
WeatherFailed ==
  /\ script = "get_weather_by_city" /\ pc = "located"
  /\ Len(locations) >= 1
  /\ \E answer \in {Response(status) : status \in HTTPErrors} \cup {TransportError} :
       net' = net \o <<GetParams(WEATHER_URL,
                                 <<DictGet(FirstLocation(locations), "lat"),
                                   DictGet(FirstLocation(locations), "lon"), units>>),
                       answer>>
  /\ printed' = printed \o <<"Error fetching weather">>
  /\ weather_data' = PyNone
  /\ ret' = weather_data'
  /\ pc' = "done"
  /\ UNCHANGED <<script, units, days, geo, locations, response_data, raised, scrapeVars,
                 otherVars>>

\* get_forecast_by_city, lines 263-264, and get_forecast, lines 199-240, with
\* a 2xx answer: forecast_info, or the KeyError of a missing member
ForecastResponse ==
  /\ script = "get_forecast_by_city" /\ pc = "located"
  /\ Len(locations) >= 1
  /\ net' = net \o <<GetParams(FORECAST_URL,
                               <<DictGet(FirstLocation(locations), "lat"),
                                 DictGet(FirstLocation(locations), "lon"), units>>),
                     Response(200)>>
  /\ response_data' \in ForecastBodies
  /\ IF \A path \in ForecastRequired : HasPath(response_data', path)
       THEN /\ ret' = ForecastInfo(response_data', units, days)
            /\ raised' = raised
       ELSE /\ ret' = ret
            /\ raised' = "KeyError"
  /\ pc' = "done"
  /\ UNCHANGED <<script, units, days, geo, locations, weather_data, printed,
                 scrapeVars, otherVars>>

\* get_forecast, lines 207-208 and 242-244: the request or raise_for_status
\* raises a RequestException
ForecastFailed ==
  /\ script = "get_forecast_by_city" /\ pc = "located"
  /\ Len(locations) >= 1
  /\ \E answer \in {Response(status) : status \in HTTPErrors} \cup {TransportError} :
       net' = net \o <<GetParams(FORECAST_URL,
                                 <<DictGet(FirstLocation(locations), "lat"),
                                   DictGet(FirstLocation(locations), "lon"), units>>),
                       answer>>
  /\ printed' = printed \o <<"Error fetching forecast">>
  /\ ret' = PyNone
  /\ pc' = "done"
  /\ UNCHANGED <<script, units, days, geo, locations, weather_data, response_data, raised,
                 scrapeVars, otherVars>>

Next ==
  \/ BookingFetchOk
  \/ BookingFetchHTTPError
  \/ BookingFetchException
  \/ BookingCard
  \/ BookingSave
  \/ DetailsFetchOk
  \/ DetailsFetchFailed
  \/ KaggleFetchResponse
  \/ KaggleFetchException
  \/ KaggleCard
  \/ KaggleSave
  \/ ThrilloFetchOk
  \/ ThrilloFetchHTTPError
  \/ ThrilloFetchException
  \/ ThrilloCard
  \/ ThrilloSave
  \/ TripFetchOk
  \/ TripFetchFailed
  \/ TripExtract
  \/ TripSave
  \/ MultiPageOk
  \/ MultiPageFailed
  \/ MultiReturn
  \/ WeatherServiceInit
  \/ RunNext
  \/ Again
  \/ LoadJson
  \/ ExampleLoad
  \/ MenuChoice
  \/ SummarizeFile
  \/ CompareLoad
  \/ CompareGuide
  \/ GeocodeResponse
  \/ GeocodeFailed
  \/ WeatherResponse
  \/ WeatherFailed
  \/ ForecastResponse
  \/ ForecastFailed

Spec == Init /\ [][Next]_vars

----------------------------------------------------------------------------
(* Properties of the fallback chains of scrape_booking_hotels *)

\* the card loop has just built hotel_data from card number idx
CardProcessed == script = "booking" /\ pc = "cards" /\ idx >= 1

\* the chain of every field extracted with a fallback chain
ChainOf ==
  [name |-> NameChain, price |-> PriceChain, rating |-> RatingChain,
   location |-> LocationChain, distance |-> DistanceChain]

ChainFields == {"name", "price", "rating", "location", "distance"}

\* positions of the locators of a chain that match a descendant of the card
Matching(card, chain) ==
  {j \in 1..Len(chain) : FindAllLoc(card, chain[j]) # <<>>}

Min(S) == CHOOSE m \in S : \A n \in S : m <= n

\* trimmed text of the first descendant that locator j of the chain matches
TextAt(card, chain, j) == GetText(FindAllLoc(card, chain[j])[1])

\* C1: for every card and every field with a fallback chain, the field is
\* the text of the first locator, in written order, that matches a descendant
\* of the card, and None when no locator matches; a card whose only name
\* element is an <h3> gets the <h3> text as its name.
C1_FirstMatchingLocator ==
  CardProcessed =>
    LET card == hotel_cards[idx] IN
    /\ \A f \in ChainFields :
         LET m == Matching(card, ChainOf[f]) IN
         DictGet(hotel_data, f) =
           IF m = {} THEN PyNone
           ELSE PyStr(TextAt(card, ChainOf[f], Min(m)))
    /\ (Matching(card, NameChain) = {2}) =>
         DictGet(hotel_data, "name") = PyStr(GetText(FindLoc(card, "h3")))

\* C1 witness: a card on which two locators of the name chain match at once
\* has been processed, and the earlier one gave the name
C1_Witness ==
  /\ CardProcessed
  /\ Cardinality(Matching(hotel_cards[idx], NameChain)) >= 2
  /\ DictGet(hotel_data, "name") = PyStr("Hotel A")

\* the case of C2: the first matching locator of the chain matches an element
\* with empty trimmed text and a later locator matches one with text
EmptyThenText(card, chain) ==
  LET m == Matching(card, chain) IN
  /\ m # {}
  /\ TextAt(card, chain, Min(m)) = ""
  /\ \E k \in m : TextAt(card, chain, k) # ""

\* the first later locator whose element has text
LaterWithText(card, chain) ==
  Min({k \in Matching(card, chain) : TextAt(card, chain, k) # ""})

\* C2 as stated: when an earlier locator matches an element with empty text
\* and a later one an element with text, the field is the later text.
C2_FirstNonEmptyWins ==
  CardProcessed =>
    \A f \in ChainFields :
      EmptyThenText(hotel_cards[idx], ChainOf[f]) =>
        DictGet(hotel_data, f) =
          PyStr(TextAt(hotel_cards[idx], ChainOf[f],
                       LaterWithText(hotel_cards[idx], ChainOf[f])))

\* C2 as amended: in that case the field is the empty text of the earlier
\* element; the later element is never consulted.
C2_FirstMatchWinsEvenIfEmpty ==
  CardProcessed =>
    \A f \in ChainFields :
      EmptyThenText(hotel_cards[idx], ChainOf[f]) =>
        DictGet(hotel_data, f) = PyStr("")

\* C2 witness: a card with an empty title element and an <h3> with text has
\* been processed
C2_Witness ==
  /\ CardProcessed
  /\ EmptyThenText(hotel_cards[idx], NameChain)
  /\ DictGet(hotel_data, "name") = PyStr("")

----------------------------------------------------------------------------
(* Which cards scrape_booking_hotels keeps *)

\* the record of card number i is in the result list
Kept(i) == \E k \in 1..Len(hotels) : DictGet(hotels[k], "id") = PyInt(i)

\* some locator of the name chain matches a descendant of the card
HasNameElement(card) == Matching(card, NameChain) # {}

\* the first matching locator of the name chain matches an element with text
HasNameText(card) ==
  /\ HasNameElement(card)
  /\ TextAt(card, NameChain, Min(Matching(card, NameChain))) # ""

\* C4 as stated: a card is dropped only when none of its name locators
\* matches; every card for which some name locator matches is kept.
C4_KeptIffNameLocatorMatches ==
  CardProcessed => (Kept(idx) <=> HasNameElement(hotel_cards[idx]))

\* C4 as amended: a card is dropped exactly when no name locator matches or
\* the element of the first matching one has empty trimmed text; every other
\* card is kept, however many optional fields are absent.
C4_KeptIffNameText ==
  CardProcessed => (Kept(idx) <=> HasNameText(hotel_cards[idx]))

\* C4 witness: a card with a name and no optional field at all has been kept
C4_Witness ==
  /\ CardProcessed
  /\ Kept(idx)
  /\ \A f \in {"price", "rating", "review_count", "location", "distance",
               "image_url", "link"} : DictGet(hotel_data, f) = PyNone
  /\ DictGet(hotel_data, "amenities") = PyList(<<>>)

----------------------------------------------------------------------------
(* The record assemblers: required field, order, count *)

\* the loop of an assembler has just processed item node number idx
ItemProcessed ==
  script \in {"booking", "kaggle", "thrillophilia"} /\ pc = "cards" /\ idx >= 1

\* the item node has the element its name/title is taken from
HasRequired(sc, node) ==
  CASE sc = "booking" -> HasNameElement(node)
    [] sc = "kaggle" -> FindLoc(node, "div[data-testid=title]") # NoElem
    [] sc = "thrillophilia" -> FindLoc(node, "h3[class=h3 title]") # NoElem

\* some optional field of a booking card was extracted
SomeOptional(d) ==
  \E f \in {"price", "rating", "review_count", "location", "distance",
            "image_url", "link"} : DictGet(d, f) # PyNone

\* C3 as stated: in every assembler a record is added only for an item node
\* whose name/title element was found, so there are never more records than
\* processed nodes with that element.
C3_RecordOnlyWithRequiredField ==
  ItemProcessed =>
    Len(hotels) <=
      Cardinality({i \in 1..idx : HasRequired(script, hotel_cards[i])})

\* C3 as amended: scrape_booking_hotels adds a record only for a card whose
\* name was extracted as non-empty text; the kaggle script and
\* basic_scraping_example add a record for every item node and put the
\* placeholder 'N/A' / 'No title found' where the element is missing.
C3_RequiredFieldPerAssembler ==
  ItemProcessed =>
    /\ script = "booking" =>
         \A i \in 1..idx : Kept(i) => HasNameText(hotel_cards[i])
    /\ script = "kaggle" =>
         /\ Len(hotels) = idx
         /\ \A i \in 1..idx :
              ~HasRequired("kaggle", hotel_cards[i]) =>
                DictGet(hotels[i], "name") = PyStr("N/A")
    /\ script = "thrillophilia" =>
         /\ Len(hotels) = idx
         /\ \A i \in 1..idx :
              ~HasRequired("thrillophilia", hotel_cards[i]) =>
                DictGet(hotels[i], "title") = PyStr("No title found")

\* C3 witness: a booking card without name element but with optional fields
\* has been processed and left out
C3_Witness ==
  /\ CardProcessed
  /\ ~HasNameElement(hotel_cards[idx])
  /\ SomeOptional(hotel_data)
  /\ ~Kept(idx)

\* the record an assembler builds from item node number i
RecordOf(sc, i) ==
  CASE sc = "booking" -> HotelData(i, hotel_cards[i])
    [] sc = "kaggle" -> KaggleRecord(hotel_cards[i])
    [] sc = "thrillophilia" -> PostData(hotel_cards[i])

\* the positions, among the item nodes, of the nodes an assembler keeps
KeptNodes(sc, n) ==
  {i \in 1..n : sc = "booking" => KeepHotel(HotelData(i, hotel_cards[i]))}

\* the k-th smallest element of a set of numbers
Nth(S, k) == CHOOSE x \in S : Cardinality({y \in S : y <= x}) = k

\* the ids of a list of booking records
Ids(hs) == [k \in 1..Len(hs) |-> Payload(DictGet(hs[k], "id"))]

\* C5: the records are in the order of their item nodes: the k-th record is
\* the record of the k-th kept node; and three cards of which the first and
\* the third have a title with text and the second has no title element give
\* exactly the records of cards 1 and 3.
C5_DocumentOrder ==
  /\ script \in {"booking", "kaggle", "thrillophilia"} /\ pc \in {"cards", "done"}
       /\ soup # NoSoup =>
       /\ Len(hotels) = Cardinality(KeptNodes(script, idx))
       /\ \A k \in 1..Len(hotels) :
            hotels[k] = RecordOf(script, Nth(KeptNodes(script, idx), k))
  /\ script = "booking" /\ pc = "done" /\ TypeOf(ret) = "dict"
       /\ Len(hotel_cards) = 3
       /\ HasNameText(hotel_cards[1]) /\ ~HasNameElement(hotel_cards[2])
       /\ HasNameText(hotel_cards[3]) =>
       Ids(Payload(DictGet(ret, "hotels"))) = <<1, 3>>

\* C5 witness: scrape_booking_hotels returned the records of cards 1 and 3
\* of three cards
C5_Witness ==
  /\ script = "booking" /\ pc = "done" /\ TypeOf(ret) = "dict"
  /\ Len(hotel_cards) = 3
  /\ ~HasNameElement(hotel_cards[2])
  /\ Ids(Payload(DictGet(ret, "hotels"))) = <<1, 3>>

\* the count field and the record list of a result set
CountKey(d) == IF DictHas(d, "total_hotels") THEN "total_hotels" ELSE "total_attractions"
ListKey(d) == IF DictHas(d, "hotels") THEN "hotels" ELSE "attractions"

\* a result set whose count field equals the length of its record list
CountMatches(d) ==
  DictGet(d, CountKey(d)) = PyInt(Len(Payload(DictGet(d, ListKey(d)))))

\* the value a reader gets from an output file
FileValue(name) == JsonLoad(files[name])

\* C6: in every result set returned or written, the total count equals the
\* length of the record list.  (A file holding {} is no result set: no
\* scraper writes it.)
C6_TotalEqualsLength ==
  /\ TypeOf(ret) = "dict" /\ (DictHas(ret, "hotels") \/ DictHas(ret, "attractions"))
       => CountMatches(ret)
  /\ \A n \in {BOOKING_FILE, THRILLO_FILE} :
       IsJson(files[n]) /\ files[n] # EmptyObjectFile => CountMatches(FileValue(n))

\* C6 witness: a result set with two records has been written, another card
\* having been dropped
C6_Witness ==
  /\ script = "booking" /\ pc = "done"
  /\ files[BOOKING_FILE] # NoFile
  /\ DictGet(FileValue(BOOKING_FILE), "total_hotels") = PyInt(2)
  /\ Len(hotel_cards) = 3

----------------------------------------------------------------------------
(* Properties of the written JSON documents *)

POST_HOLDER == "div.post-holder[itemprop=articleBody]"

\* the run of the script that has ended wrote its JSON file
WroteFile ==
  /\ script \in Scrapers /\ pc \in {"done", "loaded"}
  /\ CASE script = "booking" -> TypeOf(ret) = "dict"
       [] script = "kaggle" -> raised = NoExc
       [] script = "thrillophilia" ->
            TypeOf(ret) = "dict" /\ FindLoc(soup, POST_HOLDER) # NoElem
       [] script = "tripadvisor" -> TRUE

\* the value the script handed to json.dump
Written ==
  IF script = "thrillophilia"
  THEN ThrilloJsonData(title, THRILLO_URL, hotels, now)
  ELSE result

\* the key of the record list in the document of a script
RecordsKey(sc) ==
  CASE sc = "thrillophilia" -> "attractions"
    [] sc = "tripadvisor" -> "reviews"
    [] OTHER -> "hotels"

\* the records the assembler of the script produced
Assembled ==
  IF script = "tripadvisor" THEN Payload(ExtractReviews(soup)) ELSE hotels

\* the members of the JSON object in a file, and their keys
Members(name) == files[name][2]
MemberKeys(name) == [i \in 1..Len(Members(name)) |-> Members(name)[i][1]]

\* the JSON array of a list of records
RecordArray(rs) == <<"array", [i \in 1..Len(rs) |-> JsonDump(rs[i])]>>

\* the last member of the object in the file is the record list, holding
\* exactly the assembled records in order, and no member before it is a list
RecordsWrittenLast(name) ==
  /\ Members(name) # <<>>
  /\ Members(name)[Len(Members(name))] =
       <<RecordsKey(script), RecordArray(Assembled)>>
  /\ \A i \in 1..(Len(Members(name)) - 1) : Members(name)[i][2][1] # "array"

\* C7 as stated: the JSON document written by each scraper contains exactly
\* the records the assembler produced, in order, with the metadata keys first
\* and the record list last.
C7_RecordListLastEveryScraper ==
  WroteFile => RecordsWrittenLast(OutputOf(script))

\* C7 as amended: the documents of the booking scraper, the kaggle script
\* and the Thrillophilia example hold exactly the assembled records, in
\* order, as their last member after the metadata; the TripAdvisor document
\* holds exactly the extracted reviews, in order, under "reviews", the fourth
\* of its eight keys, and after a failed fetch it is the error object.
C7_RecordListLastCardScrapers ==
  WroteFile =>
    IF script # "tripadvisor" THEN RecordsWrittenLast(OutputOf(script))
    ELSE IF soup = NoSoup
         THEN files[TRIP_FILE] =
                <<"object", << <<"error", <<"string", "Failed to fetch page">> >> >> >>
    ELSE /\ MemberKeys(TRIP_FILE) =
              <<"url", "scraped_at", "content", "reviews", "ratings",
                "amenities", "location", "links">>
         /\ Members(TRIP_FILE)[4] = <<"reviews", RecordArray(Assembled)>>

\* C7 witness: a TripAdvisor document with a review has been written, and
\* its last member is not the review list
C7_Witness ==
  /\ script = "tripadvisor" /\ pc = "done" /\ soup # NoSoup
  /\ Len(Assembled) >= 1
  /\ Members(TRIP_FILE)[4] = <<"reviews", RecordArray(Assembled)>>
  /\ Members(TRIP_FILE)[Len(Members(TRIP_FILE))][1] = "links"

HasNoneField(rs) ==
  \E i \in 1..Len(rs) : \E k \in 1..Len(Payload(rs[i])) :
    Payload(rs[i])[k][2] = PyNone

----------------------------------------------------------------------------
(* Idempotence *)

\* both runs of the entry point in this process parsed the document
BothRunsParsed ==
  /\ run = 2 /\ pc = "done" /\ soup # NoSoup
  /\ TypeOf(first) = "dict" /\ TypeOf(ret) = "dict"
  /\ ~DictHas(first, "error")

----------------------------------------------------------------------------
(* The weather client *)

\* C10: when the geocoding response has zero results, get_weather_by_city
\* and get_forecast_by_city return None, raise nothing and issue no request
\* after the geocoding request.
C10_ZeroResultsReturnNone ==
  script \in ByCity /\ geo = PyList(<<>>) =>
    /\ pc = "done"
    /\ ret = PyNone
    /\ raised = NoExc
    /\ net = <<GetParams(GEOCODING_URL, <<"limit", 1>>), Response(200)>>

\* C10 witness: get_weather_by_city has ended on an empty geocoding response
C10_Witness ==
  /\ script = "get_weather_by_city" /\ pc = "done"
  /\ geo = PyList(<<>>)
  /\ locations = <<>>
  /\ "No results found" \in {printed[i] : i \in 1..Len(printed)}

----------------------------------------------------------------------------
(* Error handling *)

\* a request of the run got no 2xx answer
RequestFailed ==
  \E i \in 1..Len(net) :
    \/ net[i][1] = "raise"
    \/ net[i][1] = "response" /\ net[i][2] # 200

\* the run opened an input file whose text is not JSON
ReadMalformed ==
  \E i \in 1..Len(opened) :
    opened[i][2] = "r" /\ files[opened[i][1]] = MalformedFile

\* None or an empty collection
IsSentinel(v) ==
  \/ TypeOf(v) = "NoneType"
  \/ TypeOf(v) \in {"list", "dict"} /\ Payload(v) = <<>>

\* the entry points C11 names: the weather client, scrape_booking_hotels,
\* scrape_hotel_details, basic_scraping_example, the loaders of
\* example_usage and TripAdvisorScraper.scrape_page
Boundaries ==
  ByCity \cup Loaders
    \cup {"booking", "scrape_hotel_details", "thrillophilia", "tripadvisor"}

\* C11 as stated: no exception leaves any of the externally-facing
\* functions, whatever fails during the call (transport error, HTTP error,
\* a response body missing an expected key, a malformed input file), and
\* after a failure the value returned is None or an empty collection.
C11_NoExceptionReachesCaller ==
  script \in Boundaries =>
    /\ raised = NoExc
    /\ pc = "done" /\ (RequestFailed \/ ReadMalformed) => IsSentinel(ret)

\* the last entry of a sequence of net or printed
Last(seq) == seq[Len(seq)]

\* a step in which the fetch of scrape_booking_hotels or
\* basic_scraping_example is answered with status 403
AnsweredWith403 ==
  /\ script \in {"booking", "thrillophilia"} /\ pc = "start"
  /\ Last(net')[1] = "response" /\ Last(net')[2] = 403

\* what the function does in that step
NoneAndNoWrite ==
  /\ pc' = "done"
  /\ ret' = PyNone
  /\ raised' = NoExc
  /\ Last(printed') = "403 Forbidden Error"
  /\ files' = files
  /\ opened' = opened

\* C12: when the fetch of scrape_booking_hotels or basic_scraping_example is
\* answered with status 403, the function catches the error, prints the
\* static remediation message and returns None, and neither opens nor
\* changes any file.
C12_On403NoneAndNoWrite == [][AnsweredWith403 => NoneAndNoWrite]_vars

\* C12 witness: a run answered with 403 has ended with None, the output
\* file of an earlier run still in place
C12_Witness ==
  /\ script \in {"booking", "thrillophilia"} /\ pc = "done"
  /\ Last(net) = Response(403)
  /\ ret = PyNone
  /\ files[OutputOf(script)] = OldFile

\* the file opened last was opened for reading and its text is not JSON
LoadedMalformed ==
  /\ opened # <<>>
  /\ Last(opened)[2] = "r"
  /\ files[Last(opened)[1]] = MalformedFile

\* the messages printed so far
Printed == {printed[i] : i \in 1..Len(printed)}

\* C13 as stated: every function that loads a JSON file
\* (OllamaSummarizer.load_json and the four loaders of example_usage)
\* catches the malformed JSON of the file, logs a message and returns None.
C13_MalformedJsonCaught ==
  script \in Loaders \cup {"llm_summarizer"} /\ LoadedMalformed =>
    /\ raised = NoExc
    /\ "Error: Invalid JSON" \in Printed
    /\ IF script \in Loaders THEN ret = PyNone ELSE loaded = PyNone

\* the step changes no file and opens none for writing
KeepsFiles ==
  /\ files' = files
  /\ \A i \in (Len(opened) + 1)..Len(opened') : opened'[i][2] # "w"

\* C14 as stated: in every script a run serializes only after a successful
\* fetch: once a request of the run has failed (transport error, timeout or
\* HTTP error status) no step of the run writes a file, so an output file
\* that existed before the run keeps its content.
C14_SerializeOnlyAfterFetch == [][RequestFailed => KeepsFiles]_vars

----------------------------------------------------------------------------
(* Serialization after the fetch *)

\* the request of the run of a scraper was answered with status 200
FetchSucceeded ==
  /\ script \in Scrapers /\ net # <<>>
  /\ Last(net)[1] = "response" /\ Last(net)[2] = 200

\* the run is at a statement it can execute: in the loop over the item
\* nodes, or at the extractors or the save of __main__
CanStep ==
  \/ pc = "cards" /\ idx <= Len(hotel_cards)
  \/ pc \in {"extract", "save"} /\ script = "tripadvisor"

\* the run has ended and its JSON file holds the document it assembled
Serialized ==
  /\ pc \in {"done", "loaded"}
  /\ files[OutputOf(script)] = JsonDump(Written)

\* the document served to basic_scraping_example has the post holder
HasPostHolder == script = "thrillophilia" => FindLoc(page, POST_HOLDER) # NoElem

\* C15 as stated: whenever the fetch of a scraper run succeeds, the run
\* eventually serializes its result set to its JSON output file, also when
\* zero records were assembled; scrape_booking_hotels and
\* basic_scraping_example write their file on every successful fetch.  A
\* run executes its statements one after the other, so it is stated of the
\* run's positions: after the fetch the run can always take its next step,
\* and when it has ended the file holds its document.
C15_FetchLeadsToFile ==
  FetchSucceeded => CanStep \/ Serialized

\* C15 as amended: whenever the fetch of a scraper run succeeds, the run
\* eventually serializes its result set to its JSON output file, also when
\* zero records were assembled; scrape_booking_hotels writes its file on
\* every successful fetch, basic_scraping_example on every successful fetch
\* of a document that has the post holder div (without it the function
\* prints "Post holder div not found" and writes no file).
C15_FetchLeadsToFileWithPostHolder ==
  FetchSucceeded /\ HasPostHolder => CanStep \/ Serialized

\* C15 witness: basic_scraping_example fetched a document whose post holder
\* holds no post card and wrote a file of zero attractions
C15_Witness ==
  /\ script = "thrillophilia" /\ pc = "done"
  /\ FetchSucceeded /\ FindLoc(page, POST_HOLDER) # NoElem
  /\ hotels = <<>>
  /\ Serialized
  /\ DictGet(FileValue(THRILLO_FILE), "total_attractions") = PyInt(0)

----------------------------------------------------------------------------
(* The files the scripts share *)

\* the script file an entry point belongs to
ModuleOf(sc) ==
  CASE sc \in {"booking", "scrape_hotel_details"} -> "booking_scraper.py"
    [] sc = "kaggle" -> "kaggle_booking_scraper.py"
    [] sc \in {"thrillophilia"} \cup Loaders -> "example_usage.py"
    [] sc = "tripadvisor" -> "tripadvisor_scraper.py"
    [] sc \in ByCity -> "weather_service.py"
    [] sc = "llm_summarizer" -> "llm_summarizer.py"

NoProducer == "<unknown>"

\* the script that wrote a content, told by the keys of the document each
\* script dumps; unknown for a missing file, for text that is not JSON and
\* for a document of no script
Producer(content) ==
  IF ~IsJson(content) \/ TypeOf(JsonLoad(content)) # "dict" THEN NoProducer
  ELSE LET d == JsonLoad(content)
       IN  CASE DictHas(d, "search_url") -> "kaggle_booking_scraper.py"
             [] DictHas(d, "page_title") /\ DictHas(d, "total_hotels") ->
                  "booking_scraper.py"
             [] DictHas(d, "total_attractions") -> "example_usage.py"
             [] DictHas(d, "error") \/ DictHas(d, "reviews") ->
                  "tripadvisor_scraper.py"
             [] OTHER -> NoProducer

\* the files the step opens, with the mode of each
NewlyOpened == { opened'[i] : i \in (Len(opened) + 1)..Len(opened') }

\* a step of the script itself, not of a reader of its output
ScriptStep == pc' # "loaded"

\* every file the step opens held, when the step began, nothing any other
\* script wrote
OpensOwnFiles ==
  \A o \in NewlyOpened :
    Producer(files[o[1]]) \in {NoProducer, ModuleOf(script)}

\* C16 as stated: no shared mutable state exists across scripts: no file
\* written by one script is written or read by another script, so no run
\* replaces or is fed by the output of another script.
C16_NoFileSharedAcrossScripts == [][ScriptStep => OpensOwnFiles]_vars

\* the accesses to the output of another script that the code makes:
\* booking_hotels.json is written by booking_scraper.py and by
\* kaggle_booking_scraper.py, and llm_summarizer.py reads booking_hotels.json
\* and thrillophilia_pune_attractions.json
SharedAccess(o) ==
  \/ /\ script \in {"booking", "kaggle"}
     /\ o = <<BOOKING_FILE, "w">>
     /\ Producer(files[BOOKING_FILE])
          \in {"booking_scraper.py", "kaggle_booking_scraper.py"}
  \/ /\ script = "llm_summarizer"
     /\ o \in {<<BOOKING_FILE, "r">>, <<THRILLO_FILE, "r">>}

OpensOwnOrSharedFiles ==
  \A o \in NewlyOpened :
    \/ Producer(files[o[1]]) \in {NoProducer, ModuleOf(script)}
    \/ SharedAccess(o)

\* C16 as amended: the scripts share no state but two JSON files:
\* booking_hotels.json is written by both the booking scraper and the kaggle
\* script, and booking_hotels.json and thrillophilia_pune_attractions.json,
\* written by the scrapers, are read by the summarizer; no other file
\* written by one script is written or read by another script.  So the
\* later of the booking scraper and the kaggle script replaces the other's
\* output, and the scrapers' outputs feed the summarizer.
C16_OnlyJsonFilesShared == [][ScriptStep => OpensOwnOrSharedFiles]_vars

\* C16 witness: the summarizer read the booking_hotels.json the kaggle
\* script wrote and saved a summary of it
C16_Witness ==
  /\ script = "llm_summarizer" /\ pc = "done"
  /\ \E i \in 1..Len(opened) : opened[i][1] = BOOKING_FILE /\ opened[i][2] = "r"
  /\ Producer(files[BOOKING_FILE]) = "kaggle_booking_scraper.py"
  /\ files[BOOKING_SUMMARY] # NoFile

----------------------------------------------------------------------------
(* The delay before a request and the requests after a failure *)

\* the positions of the requests in net
Requests == { i \in 1..Len(net) : net[i][1] = "GET" }

\* the entry of net just before position i is the sleep of the fixed delay
SleptBefore(i) == i > 1 /\ net[i - 1][1] = "sleep" /\ net[i - 1][2] = 2

NoDelay == {"kaggle"} \cup ByCity

Targets ==
  CASE script = "booking" -> <<BOOKING_URL>>
    [] script = "scrape_hotel_details" -> <<HOTEL_URL>>
    [] script = "kaggle" -> <<KAGGLE_URL>>
    [] script = "thrillophilia" -> <<THRILLO_URL>>
    [] script = "tripadvisor" -> <<TRIP_URL>>
    [] script = "scrape_multiple_pages" -> urls
    [] script = "get_weather_by_city" -> <<GEOCODING_URL, WEATHER_URL>>
    [] script = "get_forecast_by_city" -> <<GEOCODING_URL, FORECAST_URL>>
    [] OTHER -> <<>>

IsGet(entry) == entry[1] = "GET"

\* the URLs requested so far, in order
Requested ==
  LET gets == SelectSeq(net, IsGet)
  IN  [i \in 1..Len(gets) |-> gets[i][2]]

\* the requests made are the first of the targets, each once
EachTargetOnce ==
  /\ Len(Requested) <= Len(Targets)
  /\ \A i \in 1..Len(Requested) : Requested[i] = Targets[i]

\* the entry of net at position i is the answer of a failed request
FailedAt(i) ==
  \/ net[i][1] = "raise"
  \/ net[i][1] = "response" /\ net[i][2] # 200

\* no request follows a failed one
NoRequestAfterFailure ==
  \A i \in 1..Len(net) : FailedAt(i) => \A j \in Requests : j < i

\* the operation ended with None, with the error dict of scrape_page or
\* with the exception of the request
FailureResult ==
  \/ ret = PyNone
  \/ ret = FetchFailed
  \/ raised = "requests.exceptions.ConnectionError"

\* C18 as stated: no retries: within one operation each target URL is
\* requested at most once; after a request fails (timeout, 429, 5xx,
\* transport error) the operation issues no further request and ends with
\* its failure result.  For get_weather_by_city this means at most one
\* geocoding request followed by at most one weather request.
C18_NoRetries ==
  /\ EachTargetOnce
  /\ NoRequestAfterFailure
  /\ pc = "done" /\ RequestFailed => FailureResult

----------------------------------------------------------------------------
(* The menu of the summarizer *)

\* the summarize methods the claim gives each trimmed choice, in order
MethodsOf(trimmed) ==
  CASE trimmed = "1" -> <<"summarize_thrillophilia_data">>
    [] trimmed = "2" -> <<"summarize_booking_data">>
    [] trimmed = "3" -> <<"compare_both_datasets">>
    [] trimmed = "4" -> <<"summarize_thrillophilia_data",
                          "summarize_booking_data", "compare_both_datasets">>
    [] OTHER -> <<>>

\* the summary files that exist
SummariesWritten ==
  { n \in {THRILLO_SUMMARY, BOOKING_SUMMARY, GUIDE_FILE} : files[n] # NoFile }

\* the summary files of the methods of a trimmed choice
SummariesOf(trimmed) ==
  { SummaryFile(MethodsOf(trimmed)[i]) : i \in 1..Len(MethodsOf(trimmed)) }

\* C19: the summarizer menu accepts exactly the choices 1, 2, 3 and 4 after
\* trimming whitespace: main calls only the Thrillophilia summary for 1,
\* only the booking summary for 2, only the combined guide for 3 and all
\* three in this order for 4, and writes no summary file but theirs; for any
\* other input it prints "Invalid choice!", calls no summarize function,
\* makes no LLM call and opens no file.
C19_MenuChoices ==
  script = "llm_summarizer" =>
    /\ SummariesWritten \subseteq SummariesOf(Strip(choice))
    /\ pc = "done" => called = MethodsOf(Strip(choice))
    /\ pc = "done" /\ MethodsOf(Strip(choice)) = <<>> =>
         /\ "Invalid choice!" \in Printed
         /\ prompts = <<>>
         /\ opened = <<>>
    /\ MethodsOf(Strip(choice)) # <<>> => "Invalid choice!" \notin Printed

\* C19 witness: the choice " 3 " was trimmed to 3 and main wrote the
\* combined guide and nothing else
C19_Witness ==
  /\ script = "llm_summarizer" /\ pc = "done"
  /\ choice = " 3 "
  /\ called = <<"compare_both_datasets">>
  /\ SummariesWritten = {GUIDE_FILE}
  /\ Len(prompts) = 1

----------------------------------------------------------------------------
(* The API key of the weather client *)

\* a non-empty string
NonEmptyKey(v) == TypeOf(v) = "str" /\ Payload(v) # ""

\* C20: WeatherService takes its API key from the constructor argument when
\* a non-empty one is given and otherwise from the OPENWEATHER_API_KEY
\* environment variable; when neither supplies a non-empty key the
\* constructor raises ValueError and no service object is created, so every
\* existing WeatherService has a non-empty api_key.
C20_ApiKeyFromArgumentOrEnvironment ==
  /\ self_api_key # NoObject => NonEmptyKey(self_api_key)
  /\ script = "WeatherService" /\ pc = "done" =>
       IF NonEmptyKey(api_key)
       THEN self_api_key = api_key /\ raised = NoExc
       ELSE IF NonEmptyKey(environ)
            THEN self_api_key = environ /\ raised = NoExc
            ELSE self_api_key = NoObject /\ raised = "ValueError"

\* C20 witness: an empty argument and a key in the environment
C20_Witness ==
  /\ script = "WeatherService" /\ pc = "done"
  /\ api_key = PyStr("") /\ environ = PyStr("env-key")
  /\ self_api_key = PyStr("env-key")

----------------------------------------------------------------------------
(* get_weather_by_city: geocoding, then the weather request *)

\* the positions of net that hold a request to the weather endpoint
WeatherRequests ==
  { i \in 1..Len(net) : net[i][1] = "GET" /\ net[i][2] = WEATHER_URL }

\* the geocoding request came first and was answered with at least one
\* location
GeocodedBefore(i) ==
  /\ i = 3
  /\ net[1] = GetParams(GEOCODING_URL, <<"limit", 1>>)
  /\ net[2] = Response(200)
  /\ geo # NoResponse /\ Len(Payload(geo)) >= 1

\* the request at position i carries the latitude and longitude of the
\* first location of the geocoding response body
UsesFirstResult(i) ==
  net[i][3] = <<DictGet(Payload(geo)[1], "lat"),
                DictGet(Payload(geo)[1], "lon"), units>>

\* the function returned what get_weather returned: a weather dict or None
ReturnsWeatherData ==
  ret # NotReturned /\ WeatherRequests # {} =>
    /\ ret = weather_data
    /\ ret = PyNone \/ TypeOf(ret) = "dict"

\* C21: get_weather_by_city combines geocoding and weather fetch in that
\* order: the weather request is issued only after the geocoding request
\* returned at least one location, it uses the latitude and longitude of
\* the first geocoding result, and the value the function returns is
\* exactly the value that get_weather call returned (weather dict or None).
C21_GeocodeThenWeather ==
  /\ \A i \in WeatherRequests : GeocodedBefore(i) /\ UsesFirstResult(i)
  /\ Cardinality(WeatherRequests) <= 1
  /\ ReturnsWeatherData

\* a get_weather_by_city call that found two different locations and
\* returned the weather dict of the first
C21_Witness ==
  /\ script = "get_weather_by_city" /\ pc = "done"
  /\ WeatherRequests = {3}
  /\ Len(Payload(geo)) = 2 /\ Payload(geo)[1] # Payload(geo)[2]
  /\ ret = weather_data /\ TypeOf(ret) = "dict"

----------------------------------------------------------------------------
(* The forecast list *)

\* the forecast list of the forecast_info returned
ForecastList == Payload(DictGet(ret, "forecast"))

\* the list of the API response
ResponseList == Payload(DictGet(response_data, "list"))

\* get_forecast returned a forecast_info
ForecastReturned ==
  script = "get_forecast_by_city" /\ pc = "done" /\ TypeOf(ret) = "dict"

\* the forecast list holds the leading entries of the response list, in
\* their order
LeadingEntries ==
  /\ Len(ForecastList) <= Len(ResponseList)
  /\ \A i \in 1..Len(ForecastList) :
       ForecastList[i] = ForecastEntry(ResponseList[i])

\* C22 as stated: for every value of the days argument, the forecast list
\* returned by get_forecast has at most days*8 entries (8 three-hour
\* entries per day), and these are the leading entries of the API response
\* list in their original order.
C22_AtMostEightPerDay ==
  ForecastReturned => Len(ForecastList) <= days * 8 /\ LeadingEntries

----------------------------------------------------------------------------
(* The records of scrape_booking_hotels *)

\* the records of the result scrape_booking_hotels returned
Emitted ==
  IF script = "booking" /\ TypeOf(ret) = "dict"
  THEN Payload(DictGet(ret, "hotels")) ELSE <<>>

\* the card a record was built from
CardOf(rec) == hotel_cards[Payload(DictGet(rec, "id"))]

\* the href values of the anchors of a card that have one, in document order
Hrefs(card) ==
  LET anchors == SelectSeq(Descendants(card),
                           LAMBDA e : e.tag = "a" /\ e.href # NoAttr)
  IN  [i \in 1..Len(anchors) |-> anchors[i].href]

\* None, or a string that begins with "http"
AbsoluteOrNone(link) ==
  link = PyNone \/ (TypeOf(link) = "str" /\ StartsWith(Payload(link), "http"))

\* the link the claim gives a card
LinkAsClaimed(card) ==
  IF Hrefs(card) = <<>> THEN PyNone
  ELSE LET href == Hrefs(card)[1]
       IN  CASE StartsWith(href, "/") -> PyStr("https://www.booking.com" \o href)
             [] StartsWith(href, "http") -> PyStr(href)
             [] OTHER -> PyNone

\* C23: in every record scrape_booking_hotels emits, the link field is
\* either None or an absolute URL beginning with "http": an href starting
\* with "/" becomes "https://www.booking.com" + href, an href starting with
\* "http" is kept unchanged, and for any other href (or no anchor) the link
\* stays None.
C23_LinkAbsoluteOrNone ==
  \A i \in 1..Len(Emitted) :
    /\ AbsoluteOrNone(DictGet(Emitted[i], "link"))
    /\ DictGet(Emitted[i], "link") = LinkAsClaimed(CardOf(Emitted[i]))

\* a result with a record whose card has a relative href that does not
\* start with "/": the link stayed None
C23_Witness ==
  \E i \in 1..Len(Emitted) :
    /\ Hrefs(CardOf(Emitted[i])) # <<>>
    /\ Hrefs(CardOf(Emitted[i]))[1] = "hotel/rel"
    /\ DictGet(Emitted[i], "link") = PyNone

\* the id of record number i of the result
IdOf(i) == Payload(DictGet(Emitted[i], "id"))

\* the record is the one built from the card at the position of its id
BuiltFromCardAtId(i) ==
  /\ IdOf(i) \in 1..Len(hotel_cards)
  /\ Emitted[i] = HotelData(IdOf(i), hotel_cards[IdOf(i)])

\* the largest id of the result, 0 for an empty one
LargestId ==
  IF Emitted = <<>> THEN 0
  ELSE CHOOSE m \in { IdOf(i) : i \in 1..Len(Emitted) } :
         \A i \in 1..Len(Emitted) : IdOf(i) <= m

\* C24: the id of every record emitted by scrape_booking_hotels is the
\* 1-based position of its card among all cards found on the page (not its
\* position in the output), so ids are unique and strictly increasing along
\* the hotels list, every id lies in 1..number of cards found, and
\* total_hotels is at most the largest id.
C24_IdIsCardPosition ==
  /\ \A i \in 1..Len(Emitted) : BuiltFromCardAtId(i)
  /\ \A i, j \in 1..Len(Emitted) : i < j => IdOf(i) < IdOf(j)
  /\ script = "booking" /\ TypeOf(ret) = "dict" =>
       Payload(DictGet(ret, "total_hotels")) <= LargestId

\* a result whose second record was built from the third card found: a card
\* without a name was passed over
C24_Witness ==
  /\ Len(Emitted) = 2 /\ Len(hotel_cards) = 3
  /\ IdOf(1) = 1 /\ IdOf(2) = 3
  /\ Payload(DictGet(ret, "total_hotels")) = 2

----------------------------------------------------------------------------
(* The card selectors of scrape_booking_hotels *)

\* what each selector finds in the parsed page, in the order of the code
ByTestId == FindAllLoc(soup, "div[data-testid=property-card]")
ByClass == FindAllLoc(soup, "div[class*=property-card]")
ByTestIdPart == FindAllLoc(soup, "div[data-testid*=property]")

\* scrape_booking_hotels has parsed the page and selected the cards
CardsSelected == script = "booking" /\ soup # NoSoup

\* C25: the set of hotel cards that scrape_booking_hotels processes is the
\* result of the first card selector, in the order
\* data-testid="property-card", class containing "property-card",
\* data-testid containing "property", that yields a non-empty result; a
\* later selector is consulted only when all earlier ones yielded nothing,
\* and results of different selectors are never merged.
C25_FirstNonEmptySelector ==
  CardsSelected =>
    /\ ByTestId # <<>> => hotel_cards = ByTestId
    /\ ByTestId = <<>> /\ ByClass # <<>> => hotel_cards = ByClass
    /\ ByTestId = <<>> /\ ByClass = <<>> => hotel_cards = ByTestIdPart

\* a page on which the first two selectors both find cards, and different
\* ones: only the cards of the first are processed
C25_Witness ==
  /\ CardsSelected /\ pc = "done"
  /\ ByTestId # <<>> /\ ByClass # <<>>
  /\ \A i \in 1..Len(ByClass) : \A j \in 1..Len(ByTestId) : ByClass[i] # ByTestId[j]
  /\ hotel_cards = ByTestId

----------------------------------------------------------------------------
(* The reviews of extract_reviews *)

\* the reviews list of the result scrape_page built
Reviews ==
  IF script = "tripadvisor" /\ DictHas(result, "reviews")
  THEN Payload(DictGet(result, "reviews")) ELSE <<>>

\* some field of the review holds a value other than None
HasValue(review) ==
  \E i \in 1..Len(Payload(review)) : Payload(review)[i][2] # PyNone

\* C26 as stated: every review record that extract_reviews returns contains
\* some extracted data: a review container is added to the result only if
\* at least one of its fields (rating, title, text, date, author) was found
\* with an actual value, so no returned review consists solely of absent
\* (None) values.
C26_EveryReviewHasData ==
  \A i \in 1..Len(Reviews) : HasValue(Reviews[i])

----------------------------------------------------------------------------
(* The unit labels of get_weather *)

\* get_weather returned a weather_info
WeatherReturned ==
  script = "get_weather_by_city" /\ pc = "done" /\ TypeOf(ret) = "dict"

\* the unit labels of the weather_info returned
TemperatureLabel == Payload(Path(ret, <<"temperature", "unit">>))
WindLabel == Payload(Path(ret, <<"wind", "unit">>))

\* C27 as stated: the unit labels of get_weather's result are consistent
\* with the requested unit system: units='metric' gives temperature unit °C
\* and wind unit m/s, units='imperial' gives °F and mph, and
\* units='standard' gives K and m/s.
C27_UnitLabels ==
  WeatherReturned =>
    /\ units = "metric" => TemperatureLabel = "°C" /\ WindLabel = "m/s"
    /\ units = "imperial" => TemperatureLabel = "°F" /\ WindLabel = "mph"
    /\ units = "standard" => TemperatureLabel = "K" /\ WindLabel = "m/s"

----------------------------------------------------------------------------
(* The summarizer and missing input *)

\* a step of a summarize method in which load_json returned None or empty
\* data for a file the method needs; compare_both_datasets loads the
\* Thrillophilia file in its first step and the booking file in its second
MissingInput ==
  /\ script = "llm_summarizer"
  /\ \/ /\ pc \in {"summarize_thrillophilia_data", "summarize_booking_data",
                    "compare_both_datasets"}
        /\ ~Truthy(loaded')
     \/ /\ pc = "booking_data"
        /\ ~Truthy(loaded) \/ ~Truthy(loaded')

\* the step hands no prompt to the LLM and writes no file
NoSummary ==
  /\ prompts' = prompts
  /\ files' = files
  /\ \A i \in (Len(opened) + 1)..Len(opened') : opened'[i][2] # "w"

\* C28: the summarizer never calls the LLM on missing input: if load_json
\* returns None (file not found or invalid JSON) or empty data for a
\* required file, summarize_thrillophilia_data, summarize_booking_data and
\* compare_both_datasets return None without calling generate_summary, and
\* main then writes no summary file for that summary.
C28_NoLlmOnMissingInput == [][MissingInput => NoSummary]_vars

\* choice 4 ended on a Thrillophilia file holding {} and a booking file of
\* an earlier run: the one prompt sent was the booking one, its summary was
\* saved, and the Thrillophilia summary and the guide were not written
C28_Witness ==
  /\ script = "llm_summarizer" /\ pc = "done" /\ Strip(choice) = "4"
  /\ files[THRILLO_FILE] = EmptyObjectFile /\ files[BOOKING_FILE] = OldFile
  /\ Len(prompts) = 1
  /\ files[BOOKING_SUMMARY] # NoFile
  /\ files[THRILLO_SUMMARY] = NoFile /\ files[GUIDE_FILE] = NoFile

----------------------------------------------------------------------------
(* Choice 4 of the summarizer menu *)

\* main printed the closing line of choice 4
PrintedAllGenerated ==
  /\ script = "llm_summarizer"
  /\ \E i \in 1..Len(printed) :
       printed[i] = "All summaries generated successfully!"

\* the summary files this run saved, in order
Saved ==
  LET IsWrite(o) == o[2] = "w"
      writes == SelectSeq(opened, IsWrite)
  IN  [i \in 1..Len(writes) |-> writes[i][1]]

\* the three summaries were generated and saved
AllSaved == Saved = <<THRILLO_SUMMARY, BOOKING_SUMMARY, GUIDE_FILE>>

\* under choice 4 the three methods are attempted in order, whatever
\* becomes of the earlier ones
AllAttempted ==
  script = "llm_summarizer" /\ pc = "done" /\ Strip(choice) = "4" =>
    called = <<"summarize_thrillophilia_data", "summarize_booking_data",
               "compare_both_datasets">>

\* C29 as stated: for menu choice 4, main prints "All summaries generated
\* successfully!" only if all three summaries (Thrillophilia, booking,
\* combined) were actually generated and saved; the three are attempted in
\* that order and the failure of one does not prevent the later ones from
\* being attempted.
C29_AllGeneratedOnlyIfAllSaved ==
  /\ PrintedAllGenerated => AllSaved
  /\ AllAttempted

====
